---------------------------- MODULE Spec2Model ----------------------------
(***************************************************************************)
(* Model of the packed street-name trie builder                            *)
(* (src/trie/build_street_trie.py).                                        *)
(*                                                                         *)
(* Text is modelled as a sequence of Unicode code points (a Python str),   *)
(* bytes as a sequence of integers 0..255.  A Python dict is a function    *)
(* from keys to values together with the order its keys were first set,    *)
(* which is the order iteration yields them; because the trie keeps its    *)
(* terminal list in the same dict as its child nodes, every trie value     *)
(* carries its Python type:                                                *)
(*   [t |-> "dict", m |-> function, o |-> keys in insertion order]         *)
(*   [t |-> "list", l |-> sequence]                                        *)
(* A raised exception is the value [t |-> "error"].                        *)
(***************************************************************************)
EXTENDS Integers, Sequences, FiniteSets, TLC

VARIABLES
    pc,             \* position of the program being run
    trie,           \* TrieSpec: the dict that insert_trie calls mutate
    inserted,       \* TrieSpec: the insert_trie calls made so far, <<key, index>>
    louds,          \* TrieSpec: the result of build_louds
    countries_path, \* build_trie: "none" (None), "missing" or "file"
    rows,           \* build_trie: the CSV rows read so far
    build,          \* build_trie: its locals (locations, name tables, trie)
    out,            \* main: the bytes pack_trie returned
    shards,         \* build_trie_shards: its dict from shard key to shard
    shard_len,      \* build_trie_shards: its argument shard_len
    args,           \* a function called on its own: its arguments
    result          \* a function called on its own: what it returned

trieVars == <<trie, inserted, louds>>
buildVars == <<countries_path, rows, build, out>>
shardVars == <<shards, shard_len>>
callVars == <<args, result>>
vars == <<pc, trieVars, buildVars, shardVars, callVars>>

(***************************************************************************)
(* Bounds of the model.                                                    *)
(***************************************************************************)
MaxInserts == 4
MaxRows == 4
MaxShardRows == 3
MaxNames == 3
MaxLocations == 2
MaxScenarioRows == 4
MaxKeyChars == 2

(***************************************************************************)
(* Python values.                                                          *)
(***************************************************************************)
\* the dict literal {} or {k: v}: at most one key, hence one order
Dict(m) ==
    [t |-> "dict", m |-> m,
     o |-> IF DOMAIN m = {} THEN <<>> ELSE <<CHOOSE k \in DOMAIN m : TRUE>>]
List(l) == [t |-> "list", l |-> l]
Raised == [t |-> "error"]
EmptyMap == [x \in {} |-> 0]
\* whether a result is Raised (results that are records of locals have no t)
IsRaised(x) == "t" \in DOMAIN x /\ x.t = "error"

\* d[k] = v on a dict's mapping
Put(m, k, v) == [x \in (DOMAIN m) \cup {k} |-> IF x = k THEN v ELSE m[x]]

\* d[k] = v on a dict: a new key goes last, a key already set keeps its place
SetItem(d, k, v) ==
    [t |-> "dict", m |-> Put(d.m, k, v),
     o |-> IF k \in DOMAIN d.m THEN d.o ELSE Append(d.o, k)]

TERMINAL_KEY == <<0>>

(***************************************************************************)
(* Ordering of Python str values: lexicographic by code point.             *)
(***************************************************************************)
\* variant: strings compared by UTF-16 code unit
RECURSIVE Utf16Less(_, _)
Utf16Less(a, b) ==
    IF b = <<>> THEN FALSE
    ELSE IF a = <<>> THEN TRUE
    ELSE IF Head(a) < Head(b) THEN TRUE
    ELSE IF Head(a) > Head(b) THEN FALSE
    ELSE Utf16Less(Tail(a), Tail(b))

RECURSIVE Utf16(_)
Utf16(str) ==
    IF str = <<>> THEN <<>>
    ELSE (IF Head(str) < 65536 THEN <<Head(str)>>
          ELSE <<55296 + ((Head(str) - 65536) \div 1024),
                 56320 + ((Head(str) - 65536) % 1024)>>) \o Utf16(Tail(str))

StrLess_Utf16(a, b) == Utf16Less(Utf16(a), Utf16(b))

RECURSIVE StrLess(_, _)
StrLess(a, b) ==
    IF b = <<>> THEN FALSE
    ELSE IF a = <<>> THEN TRUE
    ELSE IF Head(a) < Head(b) THEN TRUE
    ELSE IF Head(a) > Head(b) THEN FALSE
    ELSE StrLess(Tail(a), Tail(b))

\* sorted(S) for a set S of distinct strings
RECURSIVE SortedStrs(_)
SortedStrs(S) ==
    IF S = {} THEN <<>>
    ELSE LET least == CHOOSE x \in S : \A y \in S \ {x} : StrLess(x, y)
         IN <<least>> \o SortedStrs(S \ {least})

(***************************************************************************)
(* insert_trie: one dict level per character of the key, then the index is *)
(* appended to the list in the TERMINAL_KEY slot of the node reached.      *)
(***************************************************************************)
RECURSIVE insert_trie(_, _, _)
insert_trie(node, key, index) ==
    IF node.t # "dict" THEN Raised          \* list.setdefault: AttributeError
    ELSE IF key = <<>> THEN
        LET slot == IF TERMINAL_KEY \in DOMAIN node.m
                    THEN node.m[TERMINAL_KEY] ELSE List(<<>>)
        IN  IF slot.t # "list" THEN Raised  \* dict.append: AttributeError
            ELSE SetItem(node, TERMINAL_KEY, List(Append(slot.l, index)))
    ELSE
        LET ch == <<Head(key)>>
            child == IF ch \in DOMAIN node.m THEN node.m[ch] ELSE Dict(EmptyMap)
            sub == insert_trie(child, Tail(key), index)
        IN  IF sub.t = "error" THEN Raised ELSE SetItem(node, ch, sub)

(***************************************************************************)
(* compress_trie.                                                          *)
(***************************************************************************)
\* variant: the loop forgets that a node with terminal values must stay
RECURSIVE MergeLoop_IgnoreTerminal(_, _)
MergeLoop_IgnoreTerminal(merged_key, compressed_child) ==
    LET child_keys == (DOMAIN compressed_child.m) \ {TERMINAL_KEY}
    IN  IF Cardinality(child_keys) = 1
        THEN LET only_key == CHOOSE k \in child_keys : TRUE
             IN MergeLoop_IgnoreTerminal(merged_key \o only_key,
                                         compressed_child.m[only_key])
        ELSE <<merged_key, compressed_child>>

\* variant: no merging at all
MergeLoop_Never(merged_key, compressed_child) == <<merged_key, compressed_child>>

\* the `while True` loop: absorb single-child nodes without a terminal list
RECURSIVE MergeLoop(_, _)
MergeLoop(merged_key, compressed_child) ==
    LET child_keys == (DOMAIN compressed_child.m) \ {TERMINAL_KEY}
    IN  IF TERMINAL_KEY \notin DOMAIN compressed_child.m
           /\ Cardinality(child_keys) = 1
        THEN LET only_key == CHOOSE k \in child_keys : TRUE
             IN MergeLoop(merged_key \o only_key, compressed_child.m[only_key])
        ELSE <<merged_key, compressed_child>>

RECURSIVE compress_trie(_)
\* the `for key, child in trie.items()` loop over the keys still to visit
RECURSIVE CompressItems(_, _, _)
CompressItems(node, keys, compressed) ==
    IF keys = <<>> THEN compressed
    ELSE IF Head(keys) = TERMINAL_KEY
    THEN CompressItems(node, Tail(keys), compressed)
    ELSE LET compressed_child == compress_trie(node.m[Head(keys)])
             merged == MergeLoop(Head(keys), compressed_child)
         IN  IF compressed_child.t = "error" THEN Raised
             ELSE \* compressed[merged_key] = compressed_child
                  CompressItems(node, Tail(keys),
                                SetItem(compressed, merged[1], merged[2]))

compress_trie(node) ==
    IF node.t # "dict" THEN Raised          \* list.get: AttributeError
    ELSE
        LET compressed == CompressItems(node, node.o, Dict(EmptyMap))
        IN  \* the terminal slot is copied last
            IF compressed.t = "error" THEN Raised
            ELSE IF TERMINAL_KEY \in DOMAIN node.m
            THEN SetItem(compressed, TERMINAL_KEY, node.m[TERMINAL_KEY])
            ELSE compressed

(***************************************************************************)
(* build_louds.                                                            *)
(***************************************************************************)
\* list(node.get(TERMINAL_KEY, []))
NodeValues(node) ==
    IF TERMINAL_KEY \in DOMAIN node.m
    THEN LET slot == node.m[TERMINAL_KEY]
         IN IF slot.t = "list" THEN slot.l
            ELSE slot.o     \* list(dict) lists its keys in insertion order
    ELSE <<>>

\* `for edge_label, child in node.items()` with TERMINAL_KEY skipped: the
\* labels in the order the dict yields them, which is insertion order
IterationOrder(node) ==
    LET IsEdge(key) == key # TERMINAL_KEY
    IN  SelectSeq(node.o, IsEdge)

\* variant: the edges stay in the order the dict yields them
SortLabels_Unsorted(edges) == edges

\* edges.sort(key=label): each label goes before the first greater one
RECURSIVE InsertLabel(_, _)
InsertLabel(sorted, label) ==
    IF sorted = <<>> THEN <<label>>
    ELSE IF StrLess(label, Head(sorted)) THEN <<label>> \o sorted
    ELSE <<Head(sorted)>> \o InsertLabel(Tail(sorted), label)

RECURSIVE SortLabelsFrom(_, _)
SortLabelsFrom(sorted, edges) ==
    IF edges = <<>> THEN sorted
    ELSE SortLabelsFrom(InsertLabel(sorted, Head(edges)), Tail(edges))

SortLabels(edges) == SortLabelsFrom(<<>>, edges)

\* the edge labels of a node, after edges.sort(key=label)
SortedEdges(node) == SortLabels(IterationOrder(node))

\* the `while queue` loop
RECURSIVE LoudsLoop(_, _, _, _)
LoudsLoop(queue, louds_bits, edge_labels, values_per_node) ==
    IF queue = <<>>
    THEN [louds_bits |-> louds_bits, edge_labels |-> edge_labels,
          values_per_node |-> values_per_node]
    ELSE LET node == Head(queue)
             edges == SortedEdges(node)
         IN LoudsLoop(
               Tail(queue) \o [i \in 1..Len(edges) |-> node.m[edges[i]]],
               louds_bits \o [i \in 1..Len(edges) |-> 1] \o <<0>>,
               edge_labels \o edges,
               Append(values_per_node, NodeValues(node)))

\* b | mask for a one-bit mask
BitOr(b, mask) == IF (b \div mask) % 2 = 1 THEN b ELSE b + mask

Pow2(n) == 2 ^ n

\* variant: most significant bit first inside each byte
RECURSIVE SetBits_MsbFirst(_, _, _)
SetBits_MsbFirst(louds_bytes, louds_bits, i) ==
    IF i >= Len(louds_bits) THEN louds_bytes
    ELSE SetBits_MsbFirst(
           IF louds_bits[i + 1] = 1
           THEN [louds_bytes EXCEPT ![(i \div 8) + 1] = BitOr(@, Pow2(7 - (i % 8)))]
           ELSE louds_bytes,
           louds_bits, i + 1)

\* the loop `louds_bytes[i >> 3] |= 1 << (i & 7)` over bits i.. (0-based)
RECURSIVE SetBits(_, _, _)
SetBits(louds_bytes, louds_bits, i) ==
    IF i >= Len(louds_bits) THEN louds_bytes
    ELSE SetBits(
           IF louds_bits[i + 1] = 1
           THEN [louds_bytes EXCEPT ![(i \div 8) + 1] = BitOr(@, Pow2(i % 8))]
           ELSE louds_bytes,
           louds_bits, i + 1)

\* bytearray(n): n zero bytes
RECURSIVE Zeroed(_)
Zeroed(n) == IF n = 0 THEN <<>> ELSE Append(Zeroed(n - 1), 0)

build_louds(root) ==
    LET r == LoudsLoop(<<root>>, <<>>, <<>>, <<>>)
        bit_count == Len(r.louds_bits)
        zeroed == Zeroed((bit_count + 7) \div 8)
    IN  [node_count |-> Len(r.values_per_node),
         edge_count |-> Len(r.edge_labels),
         bit_count |-> bit_count,
         louds_bits |-> r.louds_bits,
         louds_bytes |-> SetBits(zeroed, r.louds_bits, 0),
         edge_labels |-> r.edge_labels,
         values_per_node |-> r.values_per_node]

(***************************************************************************)
(* Text: str.strip, str.lower, str.upper, str.encode("utf-8").            *)
(***************************************************************************)
\* the characters str.isspace() accepts
Whitespace == {9, 10, 11, 12, 13, 28, 29, 30, 31, 32, 133, 160, 5760,
               8232, 8233, 8239, 8287, 12288} \cup (8192..8202)

RECURSIVE LStrip(_)
LStrip(str) ==
    IF str # <<>> /\ Head(str) \in Whitespace THEN LStrip(Tail(str)) ELSE str

RECURSIVE RStrip(_)
RStrip(str) ==
    IF str # <<>> /\ str[Len(str)] \in Whitespace
    THEN RStrip(SubSeq(str, 1, Len(str) - 1)) ELSE str

Strip(str) == RStrip(LStrip(str))

\* str.lower / str.upper on ASCII and Latin-1 letters
LowerChar(c) ==
    IF c \in 65..90 \/ (c \in 192..222 /\ c # 215) THEN c + 32 ELSE c
UpperChar(c) ==
    IF c \in 97..122 \/ (c \in 224..254 /\ c # 247) THEN <<c - 32>>
    ELSE IF c = 181 THEN <<924>>
    ELSE IF c = 223 THEN <<83, 83>>
    ELSE IF c = 255 THEN <<376>>
    ELSE <<c>>
Lower(str) == [i \in 1..Len(str) |-> LowerChar(str[i])]
RECURSIVE Upper(_)
Upper(str) ==
    IF str = <<>> THEN <<>> ELSE UpperChar(Head(str)) \o Upper(Tail(str))

\* variant: str.encode("ascii", "replace"): "?" for a non-ASCII character
Utf8Char_Replace(c) == IF c < 128 THEN <<c>> ELSE <<63>>

Utf8Char(c) ==
    IF c < 128 THEN <<c>>
    ELSE IF c < 2048 THEN <<192 + (c \div 64), 128 + (c % 64)>>
    ELSE IF c < 65536
         THEN <<224 + (c \div 4096), 128 + ((c \div 64) % 64), 128 + (c % 64)>>
    ELSE <<240 + (c \div 262144), 128 + ((c \div 4096) % 64),
           128 + ((c \div 64) % 64), 128 + (c % 64)>>

RECURSIVE Utf8(_)
Utf8(str) == IF str = <<>> THEN <<>> ELSE Utf8Char(Head(str)) \o Utf8(Tail(str))

(***************************************************************************)
(* float(): the coordinate columns are text.  A float is modelled as an    *)
(* integer number of tenths of a degree.  FloatTable is float() on the     *)
(* texts the model reads; on any other text float() raises ValueError.     *)
(***************************************************************************)
FloatTable ==
       ("1.0" :> 10) @@ ("2.0" :> 20) @@ ("3.0" :> 30) @@ ("4.0" :> 40)
    @@ ("5.0" :> 50) @@ ("6.0" :> 60) @@ ("-1.5" :> -15)
    @@ ("8.2" :> 82) @@ ("46.8" :> 468)

IsFloat(text) == text \in DOMAIN FloatTable
ParseFloat(text) == FloatTable[text]

(***************************************************************************)
(* Kinds.                                                                  *)
(***************************************************************************)
KIND_TO_BYTE ==
       (<<115, 116, 114, 101, 101, 116>> :> 0)                           \* street
    @@ (<<97, 105, 114, 112, 111, 114, 116>> :> 1)                       \* airport
    @@ (<<116, 114, 97, 105, 110, 95, 115, 116, 97, 116, 105, 111, 110>> :> 2)
                                                                  \* train_station
    @@ (<<98, 117, 115, 95, 115, 116, 111, 112>> :> 3)                   \* bus_stop
    @@ (<<102, 101, 114, 114, 121, 95, 116, 101, 114, 109, 105, 110, 97, 108>> :> 4)
                                                                 \* ferry_terminal
    @@ (<<117, 110, 105, 118, 101, 114, 115, 105, 116, 121>> :> 5)       \* university
    @@ (<<109, 117, 115, 101, 117, 109>> :> 6)                           \* museum
    @@ (<<99, 105, 118, 105, 99, 95, 98, 117, 105, 108, 100, 105, 110, 103>> :> 7)
                                                                 \* civic_building
    @@ (<<115, 105, 103, 104, 116>> :> 8)                                \* sight
    @@ (<<99, 105, 116, 121>> :> 9)                                      \* city
    @@ (<<99, 111, 117, 110, 116, 114, 121>> :> 10)                      \* country

DEFAULT_KIND_BYTE == 15
COUNTRY_KIND_BYTE == KIND_TO_BYTE[<<99, 111, 117, 110, 116, 114, 121>>]

\* variant: a kind that is not in the table is taken for a street
KindByte_Street(kind_str) ==
    IF kind_str \in DOMAIN KIND_TO_BYTE THEN KIND_TO_BYTE[kind_str] ELSE 0

\* KIND_TO_BYTE.get(kind_str, DEFAULT_KIND_BYTE)
KindByte(kind_str) ==
    IF kind_str \in DOMAIN KIND_TO_BYTE THEN KIND_TO_BYTE[kind_str]
    ELSE DEFAULT_KIND_BYTE

\* variant: every call appends a new entry, equal tuples included
add_location_entry_NoDedup(trie_, name, lon, lat, node_idx, city_idx, kind_byte, locations, location_index) ==
    IF name = <<>>
    THEN [t |-> "ok", trie |-> trie_, locations |-> locations,
          location_index |-> location_index]
    ELSE
        LET loc_key == <<lon, lat, node_idx, city_idx, kind_byte>>
            index == Len(locations)
            new_trie == insert_trie(trie_, name, index)
        IN  IF new_trie.t = "error" THEN Raised
            ELSE [t |-> "ok",
                  trie |-> new_trie,
                  locations |-> Append(locations, loc_key),
                  location_index |-> Put(location_index, loc_key, index)]

(***************************************************************************)
(* add_location_entry: the mutated arguments (trie, locations,             *)
(* location_index) are returned; Raised when insert_trie raises.           *)
(***************************************************************************)
add_location_entry(trie_, name, lon, lat, node_idx, city_idx, kind_byte, locations, location_index) ==
    IF name = <<>>
    THEN [t |-> "ok", trie |-> trie_, locations |-> locations,
          location_index |-> location_index]
    ELSE
        LET loc_key == <<lon, lat, node_idx, city_idx, kind_byte>>
            found == loc_key \in DOMAIN location_index
            index == IF found THEN location_index[loc_key] ELSE Len(locations)
            new_trie == insert_trie(trie_, name, index)
        IN  IF new_trie.t = "error" THEN Raised
            ELSE [t |-> "ok",
                  trie |-> new_trie,
                  locations |-> IF found THEN locations
                                ELSE Append(locations, loc_key),
                  location_index |-> IF found THEN location_index
                                     ELSE Put(location_index, loc_key, index)]

(***************************************************************************)
(* build_trie.                                                             *)
(***************************************************************************)
\* the locals of build_trie before the first row (also a new shard)
\* variant: the name tables start without the empty string
NewBuilder_Unseeded ==
    [locations |-> <<>>,
     location_index |-> EmptyMap,
     node_names |-> <<>>,
     node_index |-> EmptyMap,
     city_names |-> <<>>,
     city_index |-> EmptyMap,
     trie |-> Dict(EmptyMap)]

NewBuilder ==
    [locations |-> <<>>,
     location_index |-> EmptyMap,
     node_names |-> << <<>> >>,
     node_index |-> (<<>> :> 0),
     city_names |-> << <<>> >>,
     city_index |-> (<<>> :> 0),
     trie |-> Dict(EmptyMap)]

\* whether the loop body reaches add_location_entry for this row
RowAccepted(row) ==
    /\ Strip(row.streetname) # <<>>
    /\ IsFloat(row.center_lon)
    /\ IsFloat(row.center_lat)

\* a loop body that appends the node name whether the index has it or not
BuildTrieRow_Reappend(b, row) ==
    LET name == Strip(row.streetname)
        lon == ParseFloat(row.center_lon)
        lat == ParseFloat(row.center_lat)
        node == Strip(row.city_place_node)
        node_new == TRUE
        node_index == IF node_new THEN Put(b.node_index, node, Len(b.node_names))
                      ELSE b.node_index
        node_names == IF node_new THEN Append(b.node_names, node) ELSE b.node_names
        city == Strip(row.city_place_city)
        city_new == city \notin DOMAIN b.city_index
        city_index == IF city_new THEN Put(b.city_index, city, Len(b.city_names))
                      ELSE b.city_index
        city_names == IF city_new THEN Append(b.city_names, city) ELSE b.city_names
        kind_byte == KindByte(Lower(Strip(row.kind)))
        added == add_location_entry(b.trie, name, lon, lat, node_index[node],
                                    city_index[city], kind_byte,
                                    b.locations, b.location_index)
    IN  IF name = <<>> THEN b                                \* continue
        ELSE IF ~ (IsFloat(row.center_lon) /\ IsFloat(row.center_lat))
             THEN b                                          \* continue
        ELSE IF added.t = "error" THEN Raised
        ELSE [locations |-> added.locations,
              location_index |-> added.location_index,
              node_names |-> node_names, node_index |-> node_index,
              city_names |-> city_names, city_index |-> city_index,
              trie |-> added.trie]

\* the body of `for row in reader` of build_trie on the locals b
BuildTrieRow(b, row) ==
    LET name == Strip(row.streetname)
        lon == ParseFloat(row.center_lon)
        lat == ParseFloat(row.center_lat)
        node == Strip(row.city_place_node)
        node_new == node \notin DOMAIN b.node_index
        node_index == IF node_new THEN Put(b.node_index, node, Len(b.node_names))
                      ELSE b.node_index
        node_names == IF node_new THEN Append(b.node_names, node) ELSE b.node_names
        city == Strip(row.city_place_city)
        city_new == city \notin DOMAIN b.city_index
        city_index == IF city_new THEN Put(b.city_index, city, Len(b.city_names))
                      ELSE b.city_index
        city_names == IF city_new THEN Append(b.city_names, city) ELSE b.city_names
        kind_byte == KindByte(Lower(Strip(row.kind)))
        added == add_location_entry(b.trie, name, lon, lat, node_index[node],
                                    city_index[city], kind_byte,
                                    b.locations, b.location_index)
    IN  IF name = <<>> THEN b                                \* continue
        ELSE IF ~ (IsFloat(row.center_lon) /\ IsFloat(row.center_lat))
             THEN b                                          \* continue
        ELSE IF added.t = "error" THEN Raised
        ELSE [locations |-> added.locations,
              location_index |-> added.location_index,
              node_names |-> node_names, node_index |-> node_index,
              city_names |-> city_names, city_index |-> city_index,
              trie |-> added.trie]

(***************************************************************************)
(* load_countries and add_countries_to_trie.                               *)
(***************************************************************************)
\* the countries CSV the model reads when the file exists
CountriesFile ==
    << [country |-> <<99, 104>>,                                    \* "ch"
        name |-> <<83, 119, 105, 116, 122, 101, 114, 108, 97, 110, 100>>,
        latitude |-> "46.8", longitude |-> "8.2"],                  \* Switzerland
       [country |-> <<>>, name |-> <<32, 201, 116, 97, 116>>,       \* " Etat"
        latitude |-> "1.0", longitude |-> "2.0"],                   \* (E acute)
       [country |-> <<88>>, name |-> <<32>>,                        \* no name
        latitude |-> "1.0", longitude |-> "2.0"],
       [country |-> <<89>>, name |-> <<89>>,                        \* bad number
        latitude |-> "north", longitude |-> "2.0"] >>

\* the `for row in reader` loop of load_countries
RECURSIVE LoadCountryRows(_)
LoadCountryRows(file) ==
    IF file = <<>> THEN <<>>
    ELSE LET row == Head(file)
             code == Upper(Strip(row.country))
             name == Strip(row.name)
             lat == ParseFloat(row.latitude)
             lon == ParseFloat(row.longitude)
         IN (IF name = <<>> \/ ~ (IsFloat(row.latitude) /\ IsFloat(row.longitude))
             THEN <<>>
             ELSE << <<code, name, lon, lat>> >>)
            \o LoadCountryRows(Tail(file))

\* a loader that takes a file that does not exist for an empty one
load_countries_Lenient(path) ==
    IF path = "file" THEN List(LoadCountryRows(CountriesFile)) ELSE List(<<>>)

load_countries(path) ==
    IF path = "none" THEN List(<<>>)
    ELSE IF path = "missing" THEN Raised        \* FileNotFoundError
    ELSE List(LoadCountryRows(CountriesFile))

\* the body of `for code, name, lon, lat in countries`
AddCountry(b, country) ==
    LET code == country[1]
        name == country[2]
        lon == country[3]
        lat == country[4]
        code_new == code # <<>> /\ code \notin DOMAIN b.node_index
        node_index == IF code_new THEN Put(b.node_index, code, Len(b.node_names))
                      ELSE b.node_index
        node_names == IF code_new THEN Append(b.node_names, code) ELSE b.node_names
        node_idx == IF code \in DOMAIN node_index THEN node_index[code] ELSE 0
        name_new == name \notin DOMAIN b.city_index
        city_index == IF name_new THEN Put(b.city_index, name, Len(b.city_names))
                      ELSE b.city_index
        city_names == IF name_new THEN Append(b.city_names, name) ELSE b.city_names
        city_idx == city_index[name]
        first == add_location_entry(b.trie, name, lon, lat, node_idx, city_idx,
                                    COUNTRY_KIND_BYTE, b.locations, b.location_index)
        second == IF code # <<>>
                  THEN add_location_entry(first.trie, code, lon, lat, node_idx,
                                          city_idx, COUNTRY_KIND_BYTE,
                                          first.locations, first.location_index)
                  ELSE first
    IN  IF first.t = "error" THEN Raised
        ELSE IF second.t = "error" THEN Raised
        ELSE [locations |-> second.locations,
              location_index |-> second.location_index,
              node_names |-> node_names, node_index |-> node_index,
              city_names |-> city_names, city_index |-> city_index,
              trie |-> second.trie]

RECURSIVE add_countries_to_trie(_, _)
add_countries_to_trie(b, countries) ==
    IF countries = <<>> THEN b
    ELSE LET next == AddCountry(b, Head(countries))
         IN IF IsRaised(next) THEN Raised
            ELSE add_countries_to_trie(next, Tail(countries))

(***************************************************************************)
(* normalize_name and shard_key_for_name.  The Unicode tables are those of *)
(* the characters U+0000..U+00FF and of the characters they decompose to.  *)
(***************************************************************************)
\* unicodedata.normalize("NFKD", ch) where it differs from ch
NFKD_TABLE ==
      (160 :> <<32>>) @@ (168 :> <<32, 776>>) @@ (170 :> <<97>>)
    @@ (175 :> <<32, 772>>) @@ (178 :> <<50>>) @@ (179 :> <<51>>)
    @@ (180 :> <<32, 769>>) @@ (181 :> <<956>>) @@ (184 :> <<32, 807>>)
    @@ (185 :> <<49>>) @@ (186 :> <<111>>) @@ (188 :> <<49, 8260, 52>>)
    @@ (189 :> <<49, 8260, 50>>) @@ (190 :> <<51, 8260, 52>>)
    @@ (192 :> <<65, 768>>) @@ (193 :> <<65, 769>>) @@ (194 :> <<65, 770>>)
    @@ (195 :> <<65, 771>>) @@ (196 :> <<65, 776>>) @@ (197 :> <<65, 778>>)
    @@ (199 :> <<67, 807>>) @@ (200 :> <<69, 768>>) @@ (201 :> <<69, 769>>)
    @@ (202 :> <<69, 770>>) @@ (203 :> <<69, 776>>) @@ (204 :> <<73, 768>>)
    @@ (205 :> <<73, 769>>) @@ (206 :> <<73, 770>>) @@ (207 :> <<73, 776>>)
    @@ (209 :> <<78, 771>>) @@ (210 :> <<79, 768>>) @@ (211 :> <<79, 769>>)
    @@ (212 :> <<79, 770>>) @@ (213 :> <<79, 771>>) @@ (214 :> <<79, 776>>)
    @@ (217 :> <<85, 768>>) @@ (218 :> <<85, 769>>) @@ (219 :> <<85, 770>>)
    @@ (220 :> <<85, 776>>) @@ (221 :> <<89, 769>>) @@ (224 :> <<97, 768>>)
    @@ (225 :> <<97, 769>>) @@ (226 :> <<97, 770>>) @@ (227 :> <<97, 771>>)
    @@ (228 :> <<97, 776>>) @@ (229 :> <<97, 778>>) @@ (231 :> <<99, 807>>)
    @@ (232 :> <<101, 768>>) @@ (233 :> <<101, 769>>)
    @@ (234 :> <<101, 770>>) @@ (235 :> <<101, 776>>)
    @@ (236 :> <<105, 768>>) @@ (237 :> <<105, 769>>)
    @@ (238 :> <<105, 770>>) @@ (239 :> <<105, 776>>)
    @@ (241 :> <<110, 771>>) @@ (242 :> <<111, 768>>)
    @@ (243 :> <<111, 769>>) @@ (244 :> <<111, 770>>)
    @@ (245 :> <<111, 771>>) @@ (246 :> <<111, 776>>)
    @@ (249 :> <<117, 768>>) @@ (250 :> <<117, 769>>)
    @@ (251 :> <<117, 770>>) @@ (252 :> <<117, 776>>)
    @@ (253 :> <<121, 769>>) @@ (255 :> <<121, 776>>)

RECURSIVE NFKD(_)
NFKD(str) ==
    IF str = <<>> THEN <<>>
    ELSE (IF Head(str) \in DOMAIN NFKD_TABLE THEN NFKD_TABLE[Head(str)]
          ELSE <<Head(str)>>) \o NFKD(Tail(str))

\* unicodedata.category(ch) = "Mn"
IsMn(ch) == ch \in {768, 769, 770, 771, 772, 776, 778, 807}

\* ch.isalnum()
IsAlnum(ch) ==
    ch \in (48..57) \cup (65..90) \cup (97..122) \cup (178..179) \cup
        (185..186) \cup (188..190) \cup (192..214) \cup (216..246) \cup
        (248..255) \cup {170, 181, 956}

IsAscii(ch) == ch < 128

normalize_name(name) ==
    LET decomposed == NFKD(name)
        stripped == SelectSeq(decomposed, LAMBDA ch : ~ IsMn(ch))
        lowered == Lower(stripped)
    IN  SelectSeq(lowered, IsAlnum)

\* None, the result of shard_key_for_name for a name without shard key
NoShardKey == <<>>

\* variant: a short name gives a short key
shard_key_for_name_NoPad(name, shard_len_) ==
    IF shard_len_ <= 0 THEN NoShardKey
    ELSE
        LET normalized_name == normalize_name(name)
            prefix == SubSeq(normalized_name, 1,
                             IF Len(normalized_name) < shard_len_
                             THEN Len(normalized_name) ELSE shard_len_)
        IN  IF normalized_name = <<>> THEN NoShardKey
            ELSE [i \in 1..Len(prefix) |->
                    IF IsAscii(prefix[i]) /\ IsAlnum(prefix[i])
                    THEN prefix[i] ELSE 95]

\* variant: one character less of the name goes into the key
shard_key_for_name_Short(name, shard_len_) ==
    IF shard_len_ <= 0 THEN NoShardKey
    ELSE
        LET normalized_name == normalize_name(name)
            prefix == SubSeq(normalized_name, 1,
                             IF Len(normalized_name) < shard_len_ - 1
                             THEN Len(normalized_name) ELSE shard_len_ - 1)
        IN  IF normalized_name = <<>> THEN NoShardKey
            ELSE [i \in 1..shard_len_ |->
                    IF i <= Len(prefix)
                    THEN (IF IsAscii(prefix[i]) /\ IsAlnum(prefix[i])
                          THEN prefix[i] ELSE 95)
                    ELSE 95]

shard_key_for_name(name, shard_len_) ==
    IF shard_len_ <= 0 THEN NoShardKey
    ELSE
        LET normalized_name == normalize_name(name)
            prefix == SubSeq(normalized_name, 1,
                             IF Len(normalized_name) < shard_len_
                             THEN Len(normalized_name) ELSE shard_len_)
        IN  IF normalized_name = <<>> THEN NoShardKey
            ELSE [i \in 1..shard_len_ |->
                    IF i <= Len(prefix)
                    THEN (IF IsAscii(prefix[i]) /\ IsAlnum(prefix[i])
                          THEN prefix[i] ELSE 95)
                    ELSE 95]

(***************************************************************************)
(* build_trie_shards.  shards is the dict from shard key to shard; a shard *)
(* holds the same fields as the locals of build_trie.                      *)
(***************************************************************************)
\* shards.get(shard_key), a new shard when there is none
\* a new shard that starts from the name tables of the first shard there is
ShardOrNew_Shared(shards_, shard_key) ==
    IF shard_key \in DOMAIN shards_ THEN shards_[shard_key]
    ELSE IF DOMAIN shards_ = {} THEN NewBuilder
    ELSE LET first == shards_[SortedStrs(DOMAIN shards_)[1]]
         IN  [NewBuilder EXCEPT !.node_names = first.node_names,
                                !.node_index = first.node_index,
                                !.city_names = first.city_names,
                                !.city_index = first.city_index]

ShardOrNew(shards_, shard_key) ==
    IF shard_key \in DOMAIN shards_ THEN shards_[shard_key] ELSE NewBuilder

\* the dict after a loop body, or Raised
Shards(shards_) == [t |-> "ok", shards |-> shards_]

\* variant: a row goes to the shard made first, whatever its own key
BuildShardRow_FirstShard(shards_, shard_len_, row) ==
    LET name == Strip(row.streetname)
        own_key == shard_key_for_name(name, shard_len_)
        shard_key == IF DOMAIN shards_ = {} THEN own_key
                     ELSE CHOOSE k \in DOMAIN shards_ :
                            \A k2 \in DOMAIN shards_ : k = k2 \/ StrLess(k, k2)
        shard == BuildTrieRow(ShardOrNew(shards_, shard_key), row)
    IN  IF name = <<>> THEN Shards(shards_)
        ELSE IF own_key = NoShardKey THEN Shards(shards_)
        ELSE IF ~ (IsFloat(row.center_lon) /\ IsFloat(row.center_lat))
             THEN Shards(shards_)
        ELSE IF IsRaised(shard) THEN Raised
        ELSE Shards(Put(shards_, shard_key, shard))

\* variant: the shard is looked up or made, and the node and city names are
\* entered, before the coordinates are parsed
BuildShardRow_EagerNames(shards_, shard_len_, row) ==
    LET name == Strip(row.streetname)
        shard_key == shard_key_for_name(name, shard_len_)
        before == ShardOrNew(shards_, shard_key)
        shard == BuildTrieRow(before, row)
        named == BuildTrieRow(before, [row EXCEPT !.center_lon = "1.0",
                                                  !.center_lat = "2.0"])
    IN  IF name = <<>> THEN Shards(shards_)
        ELSE IF shard_key = NoShardKey THEN Shards(shards_)
        ELSE IF ~ (IsFloat(row.center_lon) /\ IsFloat(row.center_lat))
             THEN Shards(Put(shards_, shard_key,
                             [before EXCEPT !.node_names = named.node_names,
                                            !.node_index = named.node_index,
                                            !.city_names = named.city_names,
                                            !.city_index = named.city_index]))
        ELSE IF IsRaised(shard) THEN Raised
        ELSE Shards(Put(shards_, shard_key, shard))

\* the body of `for row in reader` of build_trie_shards; from the shard
\* lookup on it is the body of build_trie's loop applied to the shard
BuildShardRow(shards_, shard_len_, row) ==
    LET name == Strip(row.streetname)
        shard_key == shard_key_for_name(name, shard_len_)
        shard == BuildTrieRow(ShardOrNew(shards_, shard_key), row)
    IN  IF name = <<>> THEN Shards(shards_)                  \* continue
        ELSE IF shard_key = NoShardKey THEN Shards(shards_)  \* continue
        ELSE IF ~ (IsFloat(row.center_lon) /\ IsFloat(row.center_lat))
             THEN Shards(shards_)                            \* continue
        ELSE IF IsRaised(shard) THEN Raised
        ELSE Shards(Put(shards_, shard_key, shard))

\* the body of `for code, name, lon, lat in countries` of build_trie_shards
\* a loop body that routes a country by its code when it has one
AddShardCountry_ByCode(shards_, shard_len_, country) ==
    LET routed_by == IF country[1] # <<>> THEN country[1] ELSE country[2]
        shard_key == shard_key_for_name(routed_by, shard_len_)
        shard == AddCountry(ShardOrNew(shards_, shard_key), country)
    IN  IF shard_key = NoShardKey THEN Shards(shards_)
        ELSE IF IsRaised(shard) THEN Raised
        ELSE Shards(Put(shards_, shard_key, shard))

AddShardCountry(shards_, shard_len_, country) ==
    LET shard_key == shard_key_for_name(country[2], shard_len_)
        shard == AddCountry(ShardOrNew(shards_, shard_key), country)
    IN  IF shard_key = NoShardKey THEN Shards(shards_)       \* continue
        ELSE IF IsRaised(shard) THEN Raised
        ELSE Shards(Put(shards_, shard_key, shard))

RECURSIVE AddShardCountries(_, _, _)
AddShardCountries(shards_, shard_len_, countries) ==
    IF countries = <<>> THEN Shards(shards_)
    ELSE LET next == AddShardCountry(shards_, shard_len_, Head(countries))
         IN IF next.t = "error" THEN Raised
            ELSE AddShardCountries(next.shards, shard_len_, Tail(countries))

\* shard.pop of the three index dicts before build_trie_shards returns
PopIndexes(shards_) ==
    [k \in DOMAIN shards_ |->
        [locations |-> shards_[k].locations,
         node_names |-> shards_[k].node_names,
         city_names |-> shards_[k].city_names,
         trie |-> shards_[k].trie]]

(***************************************************************************)
(* The packed format: varints, name tables, pack_trie.                     *)
(***************************************************************************)
\* an encoder that always ends with a group of its own
RECURSIVE encode_varint_Padded(_)
encode_varint_Padded(value) ==
    <<(value % 128) + 128>>
      \o (IF value \div 128 # 0 THEN encode_varint_Padded(value \div 128)
          ELSE <<0>>)

RECURSIVE encode_varint(_)
encode_varint(value) ==
    LET byte == value % 128
        v == value \div 128
    IN  IF v # 0 THEN <<byte + 128>> \o encode_varint(v) ELSE <<byte>>

\* list.sort(key=name) is stable: an item goes after the items not greater
RECURSIVE InsertSorted(_, _)
InsertSorted(sorted, item) ==
    IF sorted = <<>> THEN <<item>>
    ELSE IF StrLess(item[2], Head(sorted)[2]) THEN <<item>> \o sorted
    ELSE <<Head(sorted)>> \o InsertSorted(Tail(sorted), item)

RECURSIVE SortIndexed(_, _)
SortIndexed(sorted, indexed) ==
    IF indexed = <<>> THEN sorted
    ELSE SortIndexed(InsertSorted(sorted, Head(indexed)), Tail(indexed))

\* variant: the list built is new-to-old, the inverse of the mapping
reindex_names_Inverse(names) ==
    LET indexed == SortIndexed(<<>>, [i \in 1..Len(names) |-> <<i - 1, names[i]>>])
    IN  [new_names |-> [i \in 1..Len(indexed) |-> indexed[i][2]],
         old_to_new |-> [new \in 1..Len(names) |-> indexed[new][1]]]

\* variant: the table is sorted but the indices are left as they were
reindex_names_NoRemap(names) ==
    LET indexed == SortIndexed(<<>>, [i \in 1..Len(names) |-> <<i - 1, names[i]>>])
    IN  [new_names |-> [i \in 1..Len(indexed) |-> indexed[i][2]],
         old_to_new |-> [old \in 1..Len(names) |-> old - 1]]

\* old_to_new[old + 1] is the new 0-based index of old 0-based index `old`
reindex_names(names) ==
    LET indexed == SortIndexed(<<>>, [i \in 1..Len(names) |-> <<i - 1, names[i]>>])
    IN  [new_names |-> [i \in 1..Len(indexed) |-> indexed[i][2]],
         old_to_new |-> [old \in 1..Len(names) |->
                           (CHOOSE new \in 1..Len(indexed) :
                               indexed[new][1] = old - 1) - 1]]

\* variant: no byte is shared with the previous entry
CommonPrefixLen_NoShare(prev_bytes, name_bytes, prefix_len) == 0

\* the `while` loop of encode_prefix_table
RECURSIVE CommonPrefixLen(_, _, _)
CommonPrefixLen(prev_bytes, name_bytes, prefix_len) ==
    LET max_prefix == IF Len(prev_bytes) < Len(name_bytes)
                      THEN Len(prev_bytes) ELSE Len(name_bytes)
    IN  IF prefix_len < max_prefix
           /\ prev_bytes[prefix_len + 1] = name_bytes[prefix_len + 1]
        THEN CommonPrefixLen(prev_bytes, name_bytes, prefix_len + 1)
        ELSE prefix_len

RECURSIVE PrefixEntries(_, _)
PrefixEntries(names, prev_bytes) ==
    IF names = <<>> THEN <<>>
    ELSE LET name_bytes == Utf8(Head(names))
             prefix_len == CommonPrefixLen(prev_bytes, name_bytes, 0)
             suffix == SubSeq(name_bytes, prefix_len + 1, Len(name_bytes))
         IN encode_varint(prefix_len) \o encode_varint(Len(suffix)) \o suffix
            \o PrefixEntries(Tail(names), name_bytes)

encode_prefix_table(names) ==
    encode_varint(Len(names)) \o PrefixEntries(names, <<>>)

\* whether a list has the index i: list[i] counts a negative i from the end
HasIndex(list, i) == i >= -Len(list) /\ i < Len(list)

\* list[i] for an index the list has
Item(list, i) == IF i < 0 THEN list[Len(list) + i + 1] ELSE list[i + 1]

\* int(round(x)) for a float x that is exactly num/den: ties go to the even
\* integer
RoundHalfEven(num, den) ==
    LET floor == num \div den
        rest == num % den
    IN  IF 2 * rest < den THEN floor
        ELSE IF 2 * rest > den THEN floor + 1
        ELSE IF floor % 2 = 0 THEN floor ELSE floor + 1

\* coordinate * scale in tenths; a product beyond 2^25 in size is cut to
\* 2^25, which like the product itself is outside the range of three bytes
Scaled(coordinate, scale) ==
    LET size == IF coordinate < 0 THEN -coordinate ELSE coordinate
        cut == 10 * (2 ^ 25)
    IN  IF scale > 0 /\ size > cut \div scale
        THEN (IF coordinate < 0 THEN -cut ELSE cut)
        ELSE coordinate * scale

\* floor(log2(num / den)) for num >= den > 0
RECURSIVE Log2Floor(_, _)
Log2Floor(num, den) ==
    IF num < 2 * den THEN 0 ELSE 1 + Log2Floor(num \div 2, den)

\* int(round(x * scale)) for the double x nearest to size/10 (size > 0) when
\* size * scale / 10 lies halfway between two integers.  A size that is a
\* multiple of 5 is a double and the product is exact.  Otherwise x is the
\* 53-bit number nearest to size/10: with 2^ex <= size/10 < 2^(ex + 1) it is
\* off by error/10 units of 2^(ex - 52), downwards when the remainder r of
\* size * 2^(52 - ex) by 10 is under 5 and upwards when it is over; the
\* product is off by scale times as much and is rounded to 53 bits again,
\* which gives the halfway point back when the product is within half a unit
\* of it (a unit being 2^(eT - 52) for a halfway point from 2^eT on) and a
\* double on the side of the error when it is not.
TieRound(size, scale) ==
    LET below == (size * scale) \div 10
        even == IF below % 2 = 0 THEN below ELSE below + 1
        ex == Log2Floor(16 * size, 10) - 4
        r == ((size % 10) * <<2, 4, 8, 6>>[((52 - ex - 1) % 4) + 1]) % 10
        error == IF r < 5 THEN r ELSE 10 - r
        eT == Log2Floor(2 * size * scale, 10) - 1
    IN  IF size % 5 = 0 THEN even
        ELSE IF scale * error <= 5 * (2 ^ (eT - ex)) THEN even
        ELSE IF r < 5 THEN below ELSE below + 1

\* int(round(coordinate * scale)), the coordinate in tenths of a degree: the
\* nearest integer, and at a halfway point what the float product gives;
\* both roundings are symmetric in the sign
FixedPoint(coordinate, scale) ==
    LET size == IF coordinate < 0 THEN -coordinate ELSE coordinate
        product == Scaled(size, scale)
        rounded == IF product % 10 = 5 THEN TieRound(size, scale)
                   ELSE RoundHalfEven(product, 10)
    IN  IF coordinate < 0 THEN -rounded ELSE rounded

\* a range check one wider at both ends than three signed bytes
FitsSigned24_Wide(v) == v >= -(2 ^ 23) - 1 /\ v <= 2 ^ 23

\* whether int.to_bytes(3, "little", signed=True) accepts v
FitsSigned24(v) == v >= -(2 ^ 23) /\ v <= 2 ^ 23 - 1

\* a writer that spends a fourth byte on every coordinate
ToBytes3_FourBytes(v) ==
    LET u == v % (2 ^ 24)
    IN  <<u % 256, (u \div 256) % 256, u \div 65536, 0>>

\* int.to_bytes(3, "little"), two's complement for a negative v
ToBytes3(v) ==
    LET u == v % (2 ^ 24)
    IN  <<u % 256, (u \div 256) % 256, u \div 65536>>

\* the edge label section: varint length and UTF-8 bytes of each label
RECURSIVE PackLabels(_)
PackLabels(edge_labels) ==
    IF edge_labels = <<>> THEN <<>>
    ELSE LET label_bytes == Utf8(Head(edge_labels))
         IN encode_varint(Len(label_bytes)) \o label_bytes
            \o PackLabels(Tail(edge_labels))

NoPending == -1

\* variant: the first nibble of a pair goes to the high 4 bits
RECURSIVE PackValues_HighFirst(_, _, _, _)
PackValues_HighFirst(values, remapped_locations, scale, pending) ==
    IF values = <<>> THEN [t |-> "ok", bytes |-> <<>>, pending |-> pending]
    ELSE IF ~ HasIndex(remapped_locations, Head(values))
    THEN Raised
    ELSE
        LET loc == Item(remapped_locations, Head(values))
            lon_i == FixedPoint(loc[1], scale)
            lat_i == FixedPoint(loc[2], scale)
            nibble == loc[5] % 16
            kind_out == IF pending = NoPending THEN <<>>
                        ELSE <<pending * 16 + nibble>>
            pending_kind == IF pending = NoPending THEN nibble ELSE NoPending
            rest == PackValues_HighFirst(Tail(values), remapped_locations, scale,
                                         pending_kind)
        IN  IF ~ (FitsSigned24(lon_i) /\ FitsSigned24(lat_i))
            THEN Raised
            ELSE IF rest.t = "error" THEN Raised
            ELSE [t |-> "ok",
                  bytes |-> ToBytes3(lon_i) \o ToBytes3(lat_i)
                            \o encode_varint(loc[3]) \o encode_varint(loc[4])
                            \o kind_out \o rest.bytes,
                  pending |-> rest.pending]

\* the `for value in values` loop; pending is pending_kind (NoPending: None)
RECURSIVE PackValues(_, _, _, _)
PackValues(values, remapped_locations, scale, pending) ==
    IF values = <<>> THEN [t |-> "ok", bytes |-> <<>>, pending |-> pending]
    ELSE IF ~ HasIndex(remapped_locations, Head(values))
    THEN Raised                                              \* IndexError
    ELSE
        LET loc == Item(remapped_locations, Head(values))
            lon_i == FixedPoint(loc[1], scale)
            lat_i == FixedPoint(loc[2], scale)
            nibble == loc[5] % 16
            \* write_kind_nibble
            kind_out == IF pending = NoPending THEN <<>>
                        ELSE <<pending + nibble * 16>>
            pending_kind == IF pending = NoPending THEN nibble ELSE NoPending
            rest == PackValues(Tail(values), remapped_locations, scale,
                               pending_kind)
        IN  IF ~ (FitsSigned24(lon_i) /\ FitsSigned24(lat_i))
            THEN Raised                                      \* OverflowError
            ELSE IF rest.t = "error" THEN Raised
            ELSE [t |-> "ok",
                  bytes |-> ToBytes3(lon_i) \o ToBytes3(lat_i)
                            \o encode_varint(loc[3]) \o encode_varint(loc[4])
                            \o kind_out \o rest.bytes,
                  pending |-> rest.pending]

\* variant: the trailing odd nibble is flushed into the high 4 bits
RECURSIVE PackNodes_FlushHigh(_, _, _, _)
PackNodes_FlushHigh(values_per_node, remapped_locations, scale, pending) ==
    IF values_per_node = <<>>
    THEN [t |-> "ok",
          bytes |-> IF pending = NoPending THEN <<>> ELSE <<pending * 16>>]
    ELSE
        LET values == Head(values_per_node)
            these == PackValues(values, remapped_locations, scale, pending)
            rest == PackNodes_FlushHigh(Tail(values_per_node), remapped_locations,
                                        scale, these.pending)
        IN  IF these.t = "error" THEN Raised
            ELSE IF rest.t = "error" THEN Raised
            ELSE [t |-> "ok",
                  bytes |-> encode_varint(Len(values)) \o these.bytes
                            \o rest.bytes]

\* the `for values in values_per_node` loop and the final flush
RECURSIVE PackNodes(_, _, _, _)
PackNodes(values_per_node, remapped_locations, scale, pending) ==
    IF values_per_node = <<>>
    THEN [t |-> "ok",
          bytes |-> IF pending = NoPending THEN <<>> ELSE <<pending>>]
    ELSE
        LET values == Head(values_per_node)
            these == PackValues(values, remapped_locations, scale, pending)
            rest == PackNodes(Tail(values_per_node), remapped_locations, scale,
                              these.pending)
        IN  IF these.t = "error" THEN Raised
            ELSE IF rest.t = "error" THEN Raised
            ELSE [t |-> "ok",
                  bytes |-> encode_varint(Len(values)) \o these.bytes
                            \o rest.bytes]

\* variant: the scale with its most significant byte first
ScaleBytes_BigEndian(scale) ==
    <<scale \div 65536, (scale \div 256) % 256, scale % 256>>

\* scale.to_bytes(3, "little", signed=False)
ScaleBytes(scale) == <<scale % 256, (scale \div 256) % 256, scale \div 65536>>

pack_trie(locations, node_names, city_names, trie_, scale) ==
    LET nodes == reindex_names(node_names)
        cities == reindex_names(city_names)
        remapped_locations ==
            [i \in 1..Len(locations) |->
                <<locations[i][1], locations[i][2],
                  Item(nodes.old_to_new, locations[i][3]),
                  Item(cities.old_to_new, locations[i][4]),
                  locations[i][5]>>]
        l == build_louds(trie_)
        values == PackNodes(l.values_per_node, remapped_locations, scale,
                            NoPending)
    IN  IF scale < 0 \/ scale > 16777215 THEN Raised         \* ValueError
        ELSE IF \E i \in 1..Len(locations) :
                   \/ ~ HasIndex(nodes.old_to_new, locations[i][3])
                   \/ ~ HasIndex(cities.old_to_new, locations[i][4])
             THEN Raised                                     \* IndexError
        ELSE IF values.t = "error" THEN Raised
        ELSE [t |-> "ok",
              bytes |-> <<83, 84, 82, 73>> \o <<11>>          \* b"STRI", 11
                        \o ScaleBytes(scale)
                        \o encode_prefix_table(nodes.new_names)
                        \o encode_prefix_table(cities.new_names)
                        \o encode_varint(l.node_count)
                        \o encode_varint(l.bit_count)
                        \o l.louds_bytes
                        \o encode_varint(l.edge_count)
                        \o PackLabels(l.edge_labels)
                        \o values.bytes]

\* the scale write_payload leaves to pack_trie's default
DEFAULT_SCALE == 10000

(***************************************************************************)
(* TrieSpec: insert_trie calls on one dict, then compress_trie and         *)
(* build_louds, as main() applies them.                                    *)
(***************************************************************************)
\* cat car dog do, and two characters whose UTF-8 forms share a first byte
TrieKeys == { <<99, 97, 116>>, <<99, 97, 114>>, <<100, 111, 103>>,
              <<100, 111>>, <<233>>, <<232, 97>> }

NoLouds == [node_count |-> 0]
NoBuild == [locations |-> <<>>]
NoOutput == [t |-> "none"]
NoResult == [t |-> "none"]

TrieInit ==
    /\ pc = "insert"
    /\ trie = Dict(EmptyMap)
    /\ inserted = <<>>
    /\ louds = NoLouds
    /\ countries_path = "none"
    /\ rows = <<>>
    /\ build = NoBuild
    /\ out = NoOutput
    /\ shards = EmptyMap
    /\ shard_len = 0
    /\ args = <<>>
    /\ result = NoResult

TrieInsert ==
    /\ pc = "insert"
    /\ Len(inserted) < MaxInserts
    /\ \E key \in TrieKeys, index \in {1, Len(inserted) + 1} :
         /\ trie' = insert_trie(trie, key, index)
         /\ inserted' = Append(inserted, <<key, index>>)
    /\ UNCHANGED <<pc, louds, buildVars, shardVars, callVars>>

TrieCompress ==
    /\ pc = "insert"
    /\ trie' = compress_trie(trie)
    /\ pc' = "compressed"
    /\ UNCHANGED <<inserted, louds, buildVars, shardVars, callVars>>

TrieLouds ==
    /\ pc \in {"insert", "compressed"}
    /\ louds' = build_louds(trie)
    /\ pc' = IF pc = "insert" THEN "louds_raw" ELSE "louds"
    /\ UNCHANGED <<trie, inserted, buildVars, shardVars, callVars>>

TrieNext == TrieInsert \/ TrieCompress \/ TrieLouds

TrieSpec == TrieInit /\ [][TrieNext]_vars


(***************************************************************************)
(* Spec: main() without sharding.  build_trie reads the CSV row by row,    *)
(* then adds the countries; main() compresses the trie and packs it.       *)
(***************************************************************************)
MainSt == <<77, 97, 105, 110, 32, 83, 116>>                  \* "Main St"
SecondSt == <<83, 101, 99, 111, 110, 100, 32, 83, 116>>      \* "Second St"
NodeA == <<78, 111, 100, 101, 32, 65>>                       \* "Node A"
NodeB == <<78, 111, 100, 101, 32, 66>>                       \* "Node B"
CityA == <<67, 105, 116, 121, 32, 65>>                       \* "City A"
CityB == <<67, 105, 116, 121, 32, 66>>                       \* "City B"
CityC == <<67, 105, 116, 121, 32, 67>>                       \* "City C"

Row(streetname, kind, center_lon, center_lat, node, city) ==
    [streetname |-> streetname, kind |-> kind, center_lon |-> center_lon,
     center_lat |-> center_lat, city_place_node |-> node,
     city_place_city |-> city]

\* the rows a CSV may hold
InputRows ==
    { Row(MainSt, <<115, 116, 114, 101, 101, 116>>, "1.0", "2.0", NodeA, CityA),
      Row(MainSt, <<115, 116, 114, 101, 101, 116>>, "3.0", "4.0", NodeB, CityB),
      Row(SecondSt, <<98, 117, 115, 95, 115, 116, 111, 112>>, "5.0", "6.0",
          <<>>, CityC),
      \* " é " of kind " Street", in "Node A " and no city
      Row(<<32, 233, 32>>, <<32, 83, 116, 114, 101, 101, 116>>, "1.0", "2.0",
          <<78, 111, 100, 101, 32, 65, 32>>, <<>>),
      \* "èa" of kind "foobar"
      Row(<<232, 97>>, <<102, 111, 111, 98, 97, 114>>, "-1.5", "2.0",
          <<>>, <<>>),
      \* no name
      Row(<<32>>, <<115, 116, 114, 101, 101, 116>>, "1.0", "2.0", NodeB, CityB),
      \* no longitude
      Row(MainSt, <<115, 116, 114, 101, 101, 116>>, "abc", "2.0",
          <<78, 111, 100, 101, 32, 67>>, CityA) }

Init ==
    /\ pc = "rows"
    /\ countries_path \in {"none", "missing", "file"}
    /\ rows = <<>>
    /\ build = NewBuilder
    /\ out = NoOutput
    /\ trie = Dict(EmptyMap)
    /\ inserted = <<>>
    /\ louds = NoLouds
    /\ shards = EmptyMap
    /\ shard_len = 0
    /\ args = <<>>
    /\ result = NoResult

\* one iteration of `for row in reader`
ReadRow ==
    /\ pc = "rows"
    /\ Len(rows) < MaxRows
    /\ \E row \in InputRows :
         LET b == BuildTrieRow(build, row)
         IN /\ rows' = Append(rows, row)
            /\ IF IsRaised(b)
               THEN pc' = "failed" /\ UNCHANGED build
               ELSE pc' = pc /\ build' = b
    /\ UNCHANGED <<countries_path, out, trieVars, shardVars, callVars>>

\* the reader is exhausted: load_countries, add_countries_to_trie, return
AddCountries ==
    /\ pc = "rows"
    /\ LET countries == load_countries(countries_path)
           b == add_countries_to_trie(build, countries.l)
       IN IF countries.t = "error"
          THEN pc' = "failed" /\ UNCHANGED build
          ELSE IF IsRaised(b)
          THEN pc' = "failed" /\ UNCHANGED build
          ELSE pc' = "built" /\ build' = b
    /\ UNCHANGED <<countries_path, rows, out, trieVars, shardVars, callVars>>

\* main: trie = compress_trie(trie)
Compress ==
    /\ pc = "built"
    /\ build' = [build EXCEPT !.trie = compress_trie(build.trie)]
    /\ pc' = "compressed"
    /\ UNCHANGED <<countries_path, rows, out, trieVars, shardVars, callVars>>

\* main: write_payload(payload, ..., "packed")
Pack ==
    /\ pc = "compressed"
    /\ out' = pack_trie(build.locations, build.node_names, build.city_names,
                        build.trie, DEFAULT_SCALE)
    /\ pc' = IF out'.t = "error" THEN "failed" ELSE "packed"
    /\ UNCHANGED <<countries_path, rows, build, trieVars, shardVars, callVars>>

Next == ReadRow \/ AddCountries \/ Compress \/ Pack

Spec == Init /\ [][Next]_vars

(***************************************************************************)
(* ShardSpec: build_trie_shards.  It reads the CSV row by row into the     *)
(* shard of each row's name, then adds the countries and returns.          *)
(***************************************************************************)
Foo == <<70, 111, 111>>                                       \* "Foo"
Foobar == <<70, 111, 111, 98, 97, 114>>                       \* "Foobar"
Bar == <<66, 97, 114>>                                        \* "Bar"
Baz == <<66, 97, 122>>                                        \* "Baz"
Swiss == <<83, 119, 105, 115, 115>>                           \* "Swiss"
Street == <<115, 116, 114, 101, 101, 116>>                    \* "street"

\* the rows a CSV may hold in shard mode
ShardRows ==
    { Row(Foo, Street, "1.0", "2.0", NodeA, CityA),
      \* of kind " Museum "
      Row(Foobar, <<32, 77, 117, 115, 101, 117, 109, 32>>, "3.0", "4.0",
          NodeA, CityB),
      \* of no kind
      Row(Bar, <<>>, "1.0", "2.0", NodeA, CityA),
      Row(Baz, <<99, 105, 116, 121>>, "5.0", "6.0", NodeB, <<>>),
      Row(Swiss, Street, "8.2", "46.8", <<>>, <<>>),
      \* " à": normalised to "a"; of kind "foobar"
      Row(<<32, 224>>, <<102, 111, 111, 98, 97, 114>>, "1.0", "2.0", <<>>, CityA),
      \* "ß9": alphanumeric, the first character not ASCII; the node field is
      \* a lone space
      Row(<<223, 57>>, Street, "1.0", "2.0", <<32>>, <<>>),
      \* "-": nothing alphanumeric, no shard key
      Row(<<45>>, Street, "1.0", "2.0", NodeA, CityA),
      \* no name
      Row(<<32>>, Street, "1.0", "2.0", NodeB, CityB),
      \* no latitude
      Row(Foo, Street, "1.0", "north", NodeB, CityB) }

ShardLens == {0, 1, 3}

ShardInit ==
    /\ pc = "rows"
    /\ shard_len \in ShardLens
    /\ countries_path \in {"none", "missing", "file"}
    /\ rows = <<>>
    /\ shards = EmptyMap
    /\ args = <<>>
    /\ result = NoResult
    /\ build = NoBuild
    /\ out = NoOutput
    /\ trie = Dict(EmptyMap)
    /\ inserted = <<>>
    /\ louds = NoLouds

\* one iteration of `for row in reader`
ShardReadRow ==
    /\ pc = "rows"
    /\ Len(rows) < MaxShardRows
    /\ \E row \in ShardRows :
         LET s == BuildShardRow(shards, shard_len, row)
         IN /\ rows' = Append(rows, row)
            /\ IF s.t = "error"
               THEN pc' = "failed" /\ UNCHANGED shards
               ELSE pc' = pc /\ shards' = s.shards
    /\ UNCHANGED <<shard_len, countries_path, build, out, trieVars, callVars>>

\* the reader is exhausted: load_countries, the countries loop, the pops
ShardAddCountries ==
    /\ pc = "rows"
    /\ LET countries == load_countries(countries_path)
           s == AddShardCountries(shards, shard_len, countries.l)
       IN IF countries.t = "error"
          THEN pc' = "failed" /\ UNCHANGED shards
          ELSE IF s.t = "error"
          THEN pc' = "failed" /\ UNCHANGED shards
          ELSE pc' = "built" /\ shards' = PopIndexes(s.shards)
    /\ UNCHANGED <<shard_len, countries_path, rows, build, out, trieVars, callVars>>

\* the `for shard_key in sorted(shards.keys())` loop of main: a shard whose
\* pack_trie raises ends the loop, the files written before it stay
RECURSIVE WriteShards(_, _, _)
WriteShards(shards_, keys, files) ==
    IF keys = <<>> THEN [t |-> "ok", files |-> files]
    ELSE LET shard == shards_[Head(keys)]
             shard_trie == compress_trie(shard.trie)
             packed == pack_trie(shard.locations, shard.node_names,
                                 shard.city_names, shard_trie, DEFAULT_SCALE)
         IN IF packed.t = "error" THEN [t |-> "error", files |-> files]
            ELSE WriteShards(shards_, Tail(keys),
                             Put(files, Head(keys), packed.bytes))

\* main with --shard-prefix-len > 0, after build_trie_shards has returned
ShardWrite ==
    /\ pc = "built"
    /\ shard_len > 0
    /\ out' = WriteShards(shards, SortedStrs(DOMAIN shards), EmptyMap)
    /\ pc' = IF out'.t = "error" THEN "failed" ELSE "written"
    /\ UNCHANGED <<shards, shard_len, countries_path, rows, build, trieVars, callVars>>

ShardNext == ShardReadRow \/ ShardAddCountries \/ ShardWrite

ShardSpec == ShardInit /\ [][ShardNext]_vars

(***************************************************************************)
(* ScenarioSpec: main on a CSV of rows named Foo, Foobar, Bar and Baz,     *)
(* with --shard-prefix-len 3 and no countries file.                        *)
(***************************************************************************)
ScenarioRows ==
    { Row(Foo, Street, "1.0", "2.0", NodeA, CityA),
      Row(Foobar, Street, "3.0", "4.0", NodeA, CityB),
      Row(Bar, Street, "5.0", "6.0", NodeB, CityA),
      Row(Baz, Street, "8.2", "46.8", <<>>, <<>>) }

ScenarioInit ==
    /\ pc = "rows"
    /\ shard_len = 3
    /\ countries_path = "none"
    /\ rows = <<>>
    /\ shards = EmptyMap
    /\ args = <<>>
    /\ result = NoResult
    /\ build = NoBuild
    /\ out = NoOutput
    /\ trie = Dict(EmptyMap)
    /\ inserted = <<>>
    /\ louds = NoLouds

\* one iteration of `for row in reader`
ScenarioReadRow ==
    /\ pc = "rows"
    /\ Len(rows) < MaxScenarioRows
    /\ \E row \in ScenarioRows :
         LET s == BuildShardRow(shards, shard_len, row)
         IN /\ rows' = Append(rows, row)
            /\ IF s.t = "error"
               THEN pc' = "failed" /\ UNCHANGED shards
               ELSE pc' = pc /\ shards' = s.shards
    /\ UNCHANGED <<shard_len, countries_path, build, out, trieVars, callVars>>

ScenarioNext == ScenarioReadRow \/ ShardAddCountries \/ ShardWrite

ScenarioSpec == ScenarioInit /\ [][ScenarioNext]_vars

(***************************************************************************)
(* KeySpec: shard_key_for_name called on a name and a prefix length.       *)
(***************************************************************************)
\* A b 9 - space _ and the Latin-1 characters a-grave, sharp s, one half,
\* micro sign, superscript two
KeyChars == {65, 98, 57, 45, 32, 95, 224, 223, 189, 181, 178}

KeyLens == {-1, 0, 1, 2, 3}

KeyInit ==
    /\ pc = "args"
    /\ \E n \in 0..MaxKeyChars :
         \E name \in [1..n -> KeyChars] :
            \E len \in KeyLens : args = <<name, len>>
    /\ result = NoResult
    /\ trie = Dict(EmptyMap)
    /\ inserted = <<>>
    /\ louds = NoLouds
    /\ countries_path = "none"
    /\ rows = <<>>
    /\ build = NoBuild
    /\ out = NoOutput
    /\ shards = EmptyMap
    /\ shard_len = 0

\* shard_key_for_name(name, shard_len)
KeyCall ==
    /\ pc = "args"
    /\ LET key == shard_key_for_name(args[1], args[2])
       IN result' = IF key = NoShardKey THEN [t |-> "none"]
                    ELSE [t |-> "ok", key |-> key]
    /\ pc' = "returned"
    /\ UNCHANGED <<args, trieVars, buildVars, shardVars>>

KeyNext == KeyCall

KeySpec == KeyInit /\ [][KeyNext]_vars

(***************************************************************************)
(* TableSpec: the name table functions called on a list of names:          *)
(* encode_prefix_table on the list as it is, and on the list sorted by     *)
(* reindex_names as pack_trie emits it.                                    *)
(***************************************************************************)
\* "", a, ab, b, two characters with the lead byte 0xC3, and the characters
\* on both sides of each change of UTF-8 length
TableNames ==
    { <<>>, <<97>>, <<97, 98>>, <<98>>, <<233>>, <<232>>,
      <<127>>, <<128>>, <<2047>>, <<2048>>, <<65535>>, <<65536>> }

TableInit ==
    /\ pc = "names"
    /\ args \in UNION { [1..n -> TableNames] : n \in 0..MaxNames }
    /\ result = NoResult
    /\ trie = Dict(EmptyMap)
    /\ inserted = <<>>
    /\ louds = NoLouds
    /\ countries_path = "none"
    /\ rows = <<>>
    /\ build = NoBuild
    /\ out = NoOutput
    /\ shards = EmptyMap
    /\ shard_len = 0

\* encode_prefix_table(names)
TableEncode ==
    /\ pc = "names"
    /\ result' = [t |-> "ok", bytes |-> encode_prefix_table(args)]
    /\ pc' = "encoded"
    /\ UNCHANGED <<args, trieVars, buildVars, shardVars>>

\* pack_trie: re_names, _ = reindex_names(names); encode_prefix_table(re_names)
TableEmit ==
    /\ pc = "names"
    /\ result' = [t |-> "ok",
                  bytes |-> encode_prefix_table(reindex_names(args).new_names)]
    /\ pc' = "emitted"
    /\ UNCHANGED <<args, trieVars, buildVars, shardVars>>

TableNext == TableEncode \/ TableEmit

TableSpec == TableInit /\ [][TableNext]_vars

(***************************************************************************)
(* PackSpec: pack_trie called on a location vector, two name tables, a     *)
(* trie whose one key holds every location, and a scale.                   *)
(***************************************************************************)
\* kind bytes in the vocabulary (0, 10, 15) and outside it
PackKinds == {0, 10, 11, 15, 16, 255, -1}

\* coordinates in tenths of a degree: the ends of the longitude and latitude
\* ranges; 838.9, which does not fit 24 bits at scale 10000; halves, which
\* are ties at scale 1; 2^23 - 1, 2^23, -2^23 and -2^23 - 1 at scale 1; 4.1
\* and -5.1, neither of them a double, whose products with 15 are ties
PackCoordinates ==
    { <<1800, 900>>, <<-1800, -900>>, <<8389, 20>>, <<10, 8389>>,
      <<5, 15>>, <<-5, 25>>, <<83886070, -83886080>>, <<83886080, 20>>,
      <<10, -83886090>>, <<41, -51>> }

\* (1.0, 2.0) with every kind byte, with the second node name and with the
\* last node name and the last city name counted from the end, and the
\* coordinates above
PackLocations ==
    { <<10, 20, 0, 0, kind_byte>> : kind_byte \in PackKinds }
    \cup { <<10, 20, 1, 0, 0>>, <<10, 20, -1, -1, 0>> }
    \cup { <<c[1], c[2], 0, 0, 0>> : c \in PackCoordinates }

\* the default, the ends of the range of three unsigned bytes and the
\* integers next to them, and 15
PackScales == {-1, 0, 1, 15, DEFAULT_SCALE, 16777215, 16777216}

\* {"a": {"\0": [0, .., n - 1]}}, and the same locations counted from the
\* end, {"a": {"\0": [-n, .., -1]}}
PackTrieOf(n) ==
    { Dict(<<97>> :> Dict(TERMINAL_KEY :> List([i \in 1..n |-> i - 1]))),
      Dict(<<97>> :> Dict(TERMINAL_KEY :> List([i \in 1..n |-> i - 1 - n]))) }

PackInit ==
    /\ pc = "args"
    /\ \E n \in 1..MaxLocations :
         \E locations \in [1..n -> PackLocations] :
            \E scale \in PackScales, trie_ \in PackTrieOf(n) :
               args = [locations |-> locations,
                       node_names |-> << <<>>, <<78>> >>,
                       city_names |-> << <<>> >>,
                       trie |-> trie_,
                       scale |-> scale]
    /\ result = NoResult
    /\ trie = Dict(EmptyMap)
    /\ inserted = <<>>
    /\ louds = NoLouds
    /\ countries_path = "none"
    /\ rows = <<>>
    /\ build = NoBuild
    /\ out = NoOutput
    /\ shards = EmptyMap
    /\ shard_len = 0

\* pack_trie(locations, node_names, city_names, trie, scale)
PackCall ==
    /\ pc = "args"
    /\ result' = pack_trie(args.locations, args.node_names, args.city_names,
                           args.trie, args.scale)
    /\ pc' = IF result'.t = "error" THEN "raised" ELSE "returned"
    /\ UNCHANGED <<args, trieVars, buildVars, shardVars>>

PackNext == PackCall

PackSpec == PackInit /\ [][PackNext]_vars

(***************************************************************************)
(* HeaderSpec: build_trie and build_trie_shards from the opening of the    *)
(* input CSV: the check of the header, then the rows.  The header is the   *)
(* set of its column names, which is all the check looks at.               *)
(***************************************************************************)
MaxHeaderRows == 2

\* the set `required` of both functions
required ==
    { <<115, 116, 114, 101, 101, 116, 110, 97, 109, 101>>,                 \* "streetname"
      <<107, 105, 110, 100>>,                                      \* "kind"
      <<99, 101, 110, 116, 101, 114, 95, 108, 111, 110>>,                \* "center_lon"
      <<99, 101, 110, 116, 101, 114, 95, 108, 97, 116>>,                 \* "center_lat"
      <<99, 105, 116, 121, 95, 112, 108, 97, 99, 101, 95, 110, 111, 100, 101>>,   \* "city_place_node"
      <<99, 105, 116, 121, 95, 112, 108, 97, 99, 101, 95, 99, 105, 116, 121>> }  \* "city_place_city"

\* a column neither function asks for, "osm_id"
ExtraColumn == <<111, 115, 109, 95, 105, 100>>

\* the text of the extra column in every row, "17"
ExtraText == <<49, 55>>

\* ", ".join(names)
RECURSIVE JoinComma(_)
JoinComma(names) ==
    IF names = <<>> THEN <<>>
    ELSE IF Len(names) = 1 THEN Head(names)
    ELSE Head(names) \o <<44, 32>> \o JoinComma(Tail(names))

\* every required column, missing or not
MissingColumns_All(fieldnames) == SortedStrs(required)

\* sorted(required - set(reader.fieldnames or []))
MissingColumns(fieldnames) == SortedStrs(required \ fieldnames)

\* "missing required CSV columns: "
MissingPrefix ==
    <<109, 105, 115, 115, 105, 110, 103, 32, 114, 101, 113, 117, 105, 114, 101, 100, 32, 67, 83, 86, 32, 99, 111, 108, 117, 109, 110, 115, 58, 32>>

\* the check of the header: the ValueError and its message, or nothing
CheckColumns(fieldnames) ==
    IF required \subseteq fieldnames THEN [t |-> "ok"]
    ELSE [t |-> "error",
          message |-> MissingPrefix \o JoinComma(MissingColumns(fieldnames))]

\* the dict csv.DictReader makes of a row under the header fieldnames, which
\* holds the six required columns
CsvRow(row, fieldnames) ==
    IF ExtraColumn \in fieldnames
    THEN [f \in DOMAIN row \cup {"osm_id"} |->
             IF f = "osm_id" THEN ExtraText ELSE row[f]]
    ELSE row

\* the rows the CSV may hold below its header
HeaderRows ==
    { Row(MainSt, <<115, 116, 114, 101, 101, 116>>, "1.0", "2.0", NodeA, CityA),
      Row(<<232, 97>>, <<102, 111, 111, 98, 97, 114>>, "-1.5", "2.0",
          <<>>, <<>>),
      Row(<<32>>, <<115, 116, 114, 101, 101, 116>>, "1.0", "2.0", NodeB, CityB) }

HeaderInit ==
    /\ pc = "open"
    /\ args \in [fieldnames : SUBSET (required \cup {ExtraColumn})]
    /\ shard_len \in {0, 1}
    /\ countries_path = "none"
    /\ rows = <<>>
    /\ build = IF shard_len = 0 THEN NewBuilder ELSE NoBuild
    /\ shards = EmptyMap
    /\ result = NoResult
    /\ out = NoOutput
    /\ trie = Dict(EmptyMap)
    /\ inserted = <<>>
    /\ louds = NoLouds

\* csv.DictReader(f) and the check of reader.fieldnames
HeaderCheck ==
    /\ pc = "open"
    /\ result' = CheckColumns(args.fieldnames)
    /\ pc' = IF result'.t = "error" THEN "failed" ELSE "rows"
    /\ UNCHANGED <<args, buildVars, shardVars, trieVars>>

\* build_trie: one iteration of `for row in reader`
HeaderReadRow ==
    /\ pc = "rows"
    /\ shard_len = 0
    /\ Len(rows) < MaxHeaderRows
    /\ \E row \in HeaderRows :
         LET csv_row == CsvRow(row, args.fieldnames)
             b == BuildTrieRow(build, csv_row)
         IN /\ rows' = Append(rows, csv_row)
            /\ IF IsRaised(b)
               THEN pc' = "failed" /\ UNCHANGED build
               ELSE pc' = pc /\ build' = b
    /\ UNCHANGED <<countries_path, out, trieVars, shardVars, callVars>>

\* build_trie_shards: one iteration of `for row in reader`
HeaderShardReadRow ==
    /\ pc = "rows"
    /\ shard_len > 0
    /\ Len(rows) < MaxHeaderRows
    /\ \E row \in HeaderRows :
         LET csv_row == CsvRow(row, args.fieldnames)
             s == BuildShardRow(shards, shard_len, csv_row)
         IN /\ rows' = Append(rows, csv_row)
            /\ IF s.t = "error"
               THEN pc' = "failed" /\ UNCHANGED shards
               ELSE pc' = pc /\ shards' = s.shards
    /\ UNCHANGED <<shard_len, countries_path, build, out, trieVars, callVars>>

HeaderNext == HeaderCheck \/ HeaderReadRow \/ HeaderShardReadRow

HeaderSpec == HeaderInit /\ [][HeaderNext]_vars

(***************************************************************************)
(* Reading a trie back, as the repository's tests do.                      *)
(***************************************************************************)
IsPrefix(a, b) == Len(a) <= Len(b) /\ SubSeq(b, 1, Len(a)) = a

\* the `for edge, child in node.items()` loop of lookup_trie: the first edge,
\* in the order the dict yields them, that starts the remaining key; <<>> is
\* `match is None`
RECURSIVE FirstMatch(_, _)
FirstMatch(edges, remaining) ==
    IF edges = <<>> THEN <<>>
    ELSE IF Head(edges) # TERMINAL_KEY /\ IsPrefix(Head(edges), remaining)
    THEN <<Head(edges)>>
    ELSE FirstMatch(Tail(edges), remaining)

\* tests/test_build_street_trie.py lookup_trie: follow the first edge whose
\* label starts the remaining key; node.get(TERMINAL_KEY, []) of the node
\* reached, which is a list (its elements here) or, when the slot holds a
\* node, that dict itself
RECURSIVE lookup_trie(_, _)
lookup_trie(node, remaining) ==
    IF remaining = <<>>
    THEN IF TERMINAL_KEY \notin DOMAIN node.m THEN <<>>
         ELSE IF node.m[TERMINAL_KEY].t = "list" THEN node.m[TERMINAL_KEY].l
         ELSE node.m[TERMINAL_KEY]
    ELSE LET match == FirstMatch(node.o, remaining)
         IN IF match = <<>> THEN <<>>
            ELSE LET edge == match[1]
                 IN lookup_trie(node.m[edge],
                                SubSeq(remaining, Len(edge) + 1, Len(remaining)))

\* number of root paths whose edge labels concatenate to key
RECURSIVE PathCount(_, _)
PathCount(node, key) ==
    IF key = <<>> THEN 1
    ELSE LET match == {e \in (DOMAIN node.m) \ {TERMINAL_KEY} : IsPrefix(e, key)}
             sub == {<<e, PathCount(node.m[e], SubSeq(key, Len(e) + 1, Len(key)))>>
                        : e \in match}
         IN IF \A s \in sub : s[2] = 0 THEN 0
            ELSE IF \E s \in sub : s[2] = 1 /\ \A r \in sub \ {s} : r[2] = 0
                 THEN 1
            ELSE 2     \* two or more

\* the nodes below the root, each with the key spelled by its path
RECURSIVE Descendants(_, _)
Descendants(node, path) ==
    UNION { LET p == path \o e
            IN {<<p, node.m[e]>>} \cup Descendants(node.m[e], p)
            : e \in (DOMAIN node.m) \ {TERMINAL_KEY} }

\* the indices inserted under key, in insertion order
RECURSIVE IndicesOf(_, _)
IndicesOf(calls, key) ==
    IF calls = <<>> THEN <<>>
    ELSE (IF Head(calls)[1] = key THEN <<Head(calls)[2]>> ELSE <<>>)
         \o IndicesOf(Tail(calls), key)

InsertedKeys == {inserted[i][1] : i \in 1..Len(inserted)}

\* keys looked up: every candidate key, and keys that end inside an edge,
\* at a branch node without values, or beyond a leaf
ProbeKeys == TrieKeys \cup { <<99>>, <<99, 97>>, <<100>>, <<232>>,
                             <<99, 97, 116, 115>>, <<120>> }

(***************************************************************************)
(* C2: compress_trie preserves the key-to-values mapping: in the           *)
(* compressed trie exactly one root path spells each inserted key, the     *)
(* terminal list found there is the sequence of indices inserted under the *)
(* key in insertion order, and a key never inserted yields no values.      *)
(***************************************************************************)
C2_CompressPreservesMapping ==
    pc = "compressed" =>
        /\ \A k \in InsertedKeys :
             /\ PathCount(trie, k) = 1
             /\ lookup_trie(trie, k) = IndicesOf(inserted, k)
        /\ \A k \in ProbeKeys \ InsertedKeys : lookup_trie(trie, k) = <<>>

\* main, market-like case: keys sharing a compressed prefix, one of them twice
C2_Witness ==
    /\ pc = "compressed"
    /\ inserted = << <<<<99, 97, 116>>, 1>>, <<<<99, 97, 114>>, 2>>,
                     <<<<99, 97, 116>>, 1>>, <<<<100, 111>>, 4>> >>
    /\ lookup_trie(trie, <<99, 97, 116>>) = <<1, 1>>
    /\ <<99, 97>> \in DOMAIN trie.m

(***************************************************************************)
(* C3: after compress_trie no node other than the root has exactly one     *)
(* outgoing edge and no terminal values, and the nodes that carry terminal *)
(* values are exactly the inserted keys, each with the values inserted     *)
(* under it (the merged labels spell the same keys).                       *)
(***************************************************************************)
C3_NoUnaryValuelessNode ==
    pc = "compressed" =>
        LET nodes == Descendants(trie, <<>>)
        IN /\ \A n \in nodes :
                ~ ( /\ TERMINAL_KEY \notin DOMAIN n[2].m
                    /\ Cardinality(DOMAIN n[2].m) = 1 )
           /\ { <<n[1], NodeValues(n[2])>> :
                    n \in {x \in nodes : TERMINAL_KEY \in DOMAIN x[2].m} }
              = { <<k, IndicesOf(inserted, k)>> : k \in InsertedKeys }

\* cat@1 car@2 dog@3 do@4: edges "ca" and "do"; "do" keeps [4] and child "g"
C3_Witness ==
    /\ pc = "compressed"
    /\ inserted = << <<<<99, 97, 116>>, 1>>, <<<<99, 97, 114>>, 2>>,
                     <<<<100, 111, 103>>, 3>>, <<<<100, 111>>, 4>> >>
    /\ DOMAIN trie.m = { <<99, 97>>, <<100, 111>> }
    /\ DOMAIN trie.m[<<99, 97>>].m = { <<116>>, <<114>> }
    /\ trie.m[<<100, 111>>].m[TERMINAL_KEY] = List(<<4>>)
    /\ DOMAIN trie.m[<<100, 111>>].m = { TERMINAL_KEY, <<103>> }

(***************************************************************************)
(* C4: LOUDS shape: bit_count = node_count + edge_count, the bitvector     *)
(* holds edge_count ones and node_count zeros, it occupies                 *)
(* ceil(bit_count/8) bytes and bit i is stored in byte i>>3 under mask     *)
(* 1<<(i&7) (the padding bits of the last byte are zero).                  *)
(***************************************************************************)
BitAt(bytes, i) == (bytes[(i \div 8) + 1] \div Pow2(i % 8)) % 2

C4_LoudsShape ==
    pc \in {"louds", "louds_raw"} =>
        LET n == louds.bit_count
            ones == {i \in 0..(n - 1) : BitAt(louds.louds_bytes, i) = 1}
            zeros == {i \in 0..(n - 1) : BitAt(louds.louds_bytes, i) = 0}
        IN /\ n = louds.node_count + louds.edge_count
           /\ Cardinality(ones) = louds.edge_count
           /\ Cardinality(zeros) = louds.node_count
           /\ Len(louds.louds_bytes) = (n + 7) \div 8
           /\ \A i \in 0..(n - 1) :
                BitAt(louds.louds_bytes, i) = louds.louds_bits[i + 1]
           /\ \A i \in n..(8 * Len(louds.louds_bytes) - 1) :
                BitAt(louds.louds_bytes, i) = 0
           /\ \A j \in 1..Len(louds.louds_bytes) : louds.louds_bytes[j] \in 0..255

\* an uncompressed trie whose bitvector has one bits in its second byte
C4_Witness ==
    /\ pc = "louds_raw"
    /\ louds.bit_count > 8
    /\ louds.edge_count >= 4
    /\ louds.louds_bytes[2] # 0

(***************************************************************************)
(* Reading the packed bytes: scripts/packed_trie_stats.py parse_packed_trie *)
(* for version 11, keeping the fields the script steps over.               *)
(***************************************************************************)
RECURSIVE DecodeVarintLoop(_, _, _, _)
DecodeVarintLoop(data, offset, value, weight) ==
    IF offset >= Len(data) THEN Raised                       \* ParseError
    ELSE LET byte == data[offset + 1]
             v == value + (byte % 128) * weight
         IN IF byte >= 128
            THEN DecodeVarintLoop(data, offset + 1, v, weight * 128)
            ELSE [t |-> "ok", value |-> v, offset |-> offset + 1]

decode_varint(data, offset) == DecodeVarintLoop(data, offset, 0, 1)

\* data[offset : offset + n]
Slice(data, offset, n) == SubSeq(data, offset + 1, offset + n)

\* int.from_bytes(b, "little", signed=True) of three bytes
FromBytes3(b) ==
    LET u == b[1] + 256 * b[2] + 65536 * b[3]
    IN  IF u >= 2 ^ 23 THEN u - 2 ^ 24 ELSE u

\* the `for _ in range(count)` loop over a front-coded name table
RECURSIVE ReadNameTable(_, _, _, _, _)
ReadNameTable(data, offset, count, prev, names) ==
    IF count = 0 THEN [t |-> "ok", names |-> names, offset |-> offset]
    ELSE
        LET prefix_len == decode_varint(data, offset)
        IN  IF IsRaised(prefix_len) THEN Raised
            ELSE
            LET suffix_len == decode_varint(data, prefix_len.offset)
            IN  IF IsRaised(suffix_len) THEN Raised
                ELSE IF suffix_len.offset + suffix_len.value > Len(data)
                THEN Raised
                ELSE
                LET name == SubSeq(prev, 1, prefix_len.value)
                            \o Slice(data, suffix_len.offset, suffix_len.value)
                IN  ReadNameTable(data, suffix_len.offset + suffix_len.value,
                                  count - 1, name, Append(names, name))

\* the `for _ in range(edge_count)` loop
RECURSIVE ReadLabels(_, _, _, _)
ReadLabels(data, offset, count, labels) ==
    IF count = 0 THEN [t |-> "ok", labels |-> labels, offset |-> offset]
    ELSE
        LET label_len == decode_varint(data, offset)
        IN  IF IsRaised(label_len) THEN Raised
            ELSE IF label_len.offset + label_len.value > Len(data) THEN Raised
            ELSE ReadLabels(data, label_len.offset + label_len.value, count - 1,
                            Append(labels,
                                   Slice(data, label_len.offset, label_len.value)))

\* the `for _ in range(values_count)` loop; st carries offset, kind_pending,
\* the values read so far and the kind bytes read so far
RECURSIVE ReadValues(_, _, _)
ReadValues(data, count, st) ==
    IF count = 0 THEN st
    ELSE IF st.offset + 6 > Len(data) THEN Raised
    ELSE
        LET node_idx == decode_varint(data, st.offset + 6)
        IN  IF IsRaised(node_idx) THEN Raised
            ELSE
            LET city_idx == decode_varint(data, node_idx.offset)
            IN  IF IsRaised(city_idx) THEN Raised
                ELSE IF st.kind_pending /\ city_idx.offset + 1 > Len(data)
                THEN Raised
                ELSE
                LET value == <<FromBytes3(Slice(data, st.offset, 3)),
                               FromBytes3(Slice(data, st.offset + 3, 3)),
                               node_idx.value, city_idx.value>>
                IN  ReadValues(data, count - 1,
                        [t |-> "ok",
                         offset |-> IF st.kind_pending THEN city_idx.offset + 1
                                    ELSE city_idx.offset,
                         kind_pending |-> ~ st.kind_pending,
                         values |-> Append(st.values, value),
                         kinds |-> IF st.kind_pending
                                   THEN Append(st.kinds, data[city_idx.offset + 1])
                                   ELSE st.kinds])

\* the `for _ in range(node_count)` loop and the trailing kind byte
RECURSIVE ReadNodes(_, _, _, _)
ReadNodes(data, node_count, counts, st) ==
    IF node_count = 0
    THEN IF ~ st.kind_pending
         THEN [t |-> "ok", counts |-> counts, values |-> st.values,
               kinds |-> st.kinds, offset |-> st.offset]
         ELSE IF st.offset + 1 > Len(data) THEN Raised
         ELSE [t |-> "ok", counts |-> counts, values |-> st.values,
               kinds |-> Append(st.kinds, data[st.offset + 1]),
               offset |-> st.offset + 1]
    ELSE
        LET values_count == decode_varint(data, st.offset)
        IN  IF IsRaised(values_count) THEN Raised
            ELSE
            LET read == ReadValues(data, values_count.value,
                                   [st EXCEPT !.offset = values_count.offset])
            IN  IF IsRaised(read) THEN Raised
                ELSE ReadNodes(data, node_count - 1,
                               Append(counts, values_count.value), read)

\* the version-11 path of parse_packed_trie after the two name tables
ParseTrieSection(data, scale, place_nodes, place_cities, start) ==
    LET node_count == decode_varint(data, start)
    IN  IF IsRaised(node_count) THEN Raised
        ELSE
        LET louds_bit_count == decode_varint(data, node_count.offset)
        IN  IF IsRaised(louds_bit_count) THEN Raised
            ELSE
            LET louds_byte_count == (louds_bit_count.value + 7) \div 8
                louds_end == louds_bit_count.offset + louds_byte_count
            IN  IF louds_end > Len(data) THEN Raised
                ELSE
                LET edge_count == decode_varint(data, louds_end)
                IN  IF IsRaised(edge_count) THEN Raised
                    ELSE
                    LET labels == ReadLabels(data, edge_count.offset,
                                             edge_count.value, <<>>)
                    IN  IF IsRaised(labels) THEN Raised
                        ELSE
                        LET nodes == ReadNodes(data, node_count.value, <<>>,
                                         [t |-> "ok", offset |-> labels.offset,
                                          kind_pending |-> FALSE,
                                          values |-> <<>>, kinds |-> <<>>])
                        IN  IF IsRaised(nodes) THEN Raised
                            ELSE [t |-> "ok",
                                  scale |-> scale,
                                  place_nodes |-> place_nodes,
                                  place_cities |-> place_cities,
                                  node_count |-> node_count.value,
                                  louds_bit_count |-> louds_bit_count.value,
                                  louds_bytes |-> Slice(data,
                                                        louds_bit_count.offset,
                                                        louds_byte_count),
                                  edge_labels |-> labels.labels,
                                  values_offset |-> labels.offset,
                                  value_counts |-> nodes.counts,
                                  values |-> nodes.values,
                                  kind_bytes |-> nodes.kinds,
                                  offset |-> nodes.offset]

\* parse_packed_trie for a version-11 file (other versions are not modelled)
parse_packed_trie(data) ==
    IF Len(data) < 5 THEN Raised
    ELSE IF SubSeq(data, 1, 4) # <<83, 84, 82, 73>> THEN Raised
    ELSE IF data[5] # 11 THEN Raised
    ELSE IF 5 + 3 > Len(data) THEN Raised
    ELSE
        LET scale == data[6] + 256 * data[7] + 65536 * data[8]
            place_node_count == decode_varint(data, 8)
        IN  IF IsRaised(place_node_count) THEN Raised
            ELSE
            LET place_nodes == ReadNameTable(data, place_node_count.offset,
                                             place_node_count.value, <<>>, <<>>)
            IN  IF IsRaised(place_nodes) THEN Raised
                ELSE
                LET city_count == decode_varint(data, place_nodes.offset)
                IN  IF IsRaised(city_count) THEN Raised
                    ELSE
                    LET place_cities == ReadNameTable(data, city_count.offset,
                                            city_count.value, <<>>, <<>>)
                    IN  IF IsRaised(place_cities) THEN Raised
                        ELSE ParseTrieSection(data, scale, place_nodes.names,
                                              place_cities.names,
                                              place_cities.offset)

(***************************************************************************)
(* Walking the decoded LOUDS tree.  Nodes and edges are numbered from 0 in *)
(* level order; the child reached over edge e is node e + 1.               *)
(***************************************************************************)
\* position of the n-th 0 bit (n >= 1); -1 for n = 0
ZeroPos(p, n) ==
    IF n = 0 THEN -1
    ELSE CHOOSE i \in 0..(p.louds_bit_count - 1) :
            /\ BitAt(p.louds_bytes, i) = 0
            /\ Cardinality({j \in 0..(i - 1) : BitAt(p.louds_bytes, j) = 0})
                 = n - 1

\* the edges leaving node: the 1 bits between the node-th and the next 0 bit
NodeEdges(p, node) ==
    LET from == ZeroPos(p, node) + 1
        to == ZeroPos(p, node + 1) - 1
        first == from - node
    IN  {first + k : k \in 0..(to - from)}

RECURSIVE SumTo(_, _)
SumTo(counts, n) == IF n = 0 THEN 0 ELSE counts[n] + SumTo(counts, n - 1)

\* the kind nibble of the k-th value read (k from 1)
KindNibble(p, k) ==
    LET byte == p.kind_bytes[((k - 1) \div 2) + 1]
    IN  IF (k - 1) % 2 = 0 THEN byte % 16 ELSE byte \div 16

\* the decoded values of node, each with its names and its kind nibble
NodeEntries(p, node) ==
    LET before == SumTo(p.value_counts, node)
    IN  [j \in 1..p.value_counts[node + 1] |->
            LET v == p.values[before + j]
            IN  <<v[1], v[2], p.place_nodes[v[3] + 1], p.place_cities[v[4] + 1],
                  KindNibble(p, before + j)>>]

\* from node, follow the edge whose label starts the remaining bytes
RECURSIVE WalkLouds(_, _, _)
WalkLouds(p, node, remaining) ==
    IF remaining = <<>> THEN NodeEntries(p, node)
    ELSE LET match == {e \in NodeEdges(p, node) :
                          IsPrefix(p.edge_labels[e + 1], remaining)}
         IN IF match = {} THEN <<>>
            ELSE LET e == CHOOSE x \in match : TRUE
                     label == p.edge_labels[e + 1]
                 IN WalkLouds(p, e + 1,
                              SubSeq(remaining, Len(label) + 1, Len(remaining)))

(***************************************************************************)
(* C1: round trip of trie keys.  With countries disabled, after build_trie,*)
(* compress_trie and pack_trie, the packed bytes decode, and walking the   *)
(* LOUDS tree from the root along the UTF-8 bytes of a name reaches the    *)
(* entries (fixed-point lon, fixed-point lat, node name, city name, kind   *)
(* nibble) of the accepted rows of that name, once per row in ingestion    *)
(* order; a name no accepted row carried reaches no values.                *)
(***************************************************************************)
\* what a row is expected to read back as
RowEntry(row) ==
    << (ParseFloat(row.center_lon) * DEFAULT_SCALE) \div 10,
       (ParseFloat(row.center_lat) * DEFAULT_SCALE) \div 10,
       Utf8(Strip(row.city_place_node)),
       Utf8(Strip(row.city_place_city)),
       KindByte(Lower(Strip(row.kind))) >>

RECURSIVE ExpectedEntries(_, _)
ExpectedEntries(read, name) ==
    IF read = <<>> THEN <<>>
    ELSE (IF RowAccepted(Head(read)) /\ Strip(Head(read).streetname) = name
          THEN <<RowEntry(Head(read))>> ELSE <<>>)
         \o ExpectedEntries(Tail(read), name)

\* the names rows can carry, and names that are never ingested: prefixes of
\* names, a name running past a leaf, the lone first character of a label
RoundTripNames ==
    { MainSt, SecondSt, <<233>>, <<232, 97>>,
      <<77, 97, 105, 110>>, <<77, 97, 105, 110, 32, 83, 116, 114>>,
      <<232>>, <<83>>, <<90>> }

C1_PackedRoundTrip ==
    (pc = "packed" /\ countries_path = "none") =>
        LET p == parse_packed_trie(out.bytes)
        IN /\ p.t = "ok"
           /\ p.offset = Len(out.bytes)
           /\ \A name \in RoundTripNames :
                WalkLouds(p, 0, Utf8(name)) = ExpectedEntries(rows, name)

\* Main St twice with node names whose sorted order differs from the order
\* of first use, next to the two names that start with the byte 0xC3
C1_Witness ==
    /\ pc = "packed"
    /\ countries_path = "none"
    /\ Len(rows) = 4
    /\ rows[1].city_place_node = NodeB
    /\ rows[2].city_place_node = NodeA
    /\ LET p == parse_packed_trie(out.bytes)
       IN /\ Len(WalkLouds(p, 0, Utf8(MainSt))) = 2
          /\ WalkLouds(p, 0, Utf8(MainSt))[1][3] = Utf8(NodeB)
          /\ Len(WalkLouds(p, 0, Utf8(<<233>>))) = 1
          /\ Len(WalkLouds(p, 0, Utf8(<<232, 97>>))) = 1

(***************************************************************************)
(* C10: dedup with multiplicity.  After any sequence of rows read into one *)
(* builder, the location vector holds no two equal 5-tuples, its entries   *)
(* stand in the order in which their tuples first appeared, and the        *)
(* terminal list of a name holds, per accepted row of that name and in     *)
(* row order, the index of the row's tuple: a row read twice gives the     *)
(* same index twice.                                                       *)
(***************************************************************************)
\* the 5-tuple of a row, its two names written out
RowTuple(row) ==
    << ParseFloat(row.center_lon), ParseFloat(row.center_lat),
       Strip(row.city_place_node), Strip(row.city_place_city),
       KindByte(Lower(Strip(row.kind))) >>

\* the tuples of the accepted rows in first-appearance order
RECURSIVE FirstAppearances(_, _)
FirstAppearances(read, seen) ==
    IF read = <<>> THEN seen
    ELSE IF RowAccepted(Head(read))
            /\ ~ \E i \in 1..Len(seen) : seen[i] = RowTuple(Head(read))
         THEN FirstAppearances(Tail(read), Append(seen, RowTuple(Head(read))))
         ELSE FirstAppearances(Tail(read), seen)

\* per accepted row of the name, the 0-based position of its tuple in entries
RECURSIVE ExpectedIndices(_, _, _)
ExpectedIndices(read, name, entries) ==
    IF read = <<>> THEN <<>>
    ELSE (IF RowAccepted(Head(read)) /\ Strip(Head(read).streetname) = name
          THEN << (CHOOSE i \in 1..Len(entries) :
                      entries[i] = RowTuple(Head(read))) - 1 >>
          ELSE <<>>)
         \o ExpectedIndices(Tail(read), name, entries)

C10_DedupWithMultiplicity ==
    pc = "rows" =>
        LET locs == build.locations
            named == [i \in 1..Len(locs) |->
                        <<locs[i][1], locs[i][2],
                          build.node_names[locs[i][3] + 1],
                          build.city_names[locs[i][4] + 1], locs[i][5]>>]
            entries == FirstAppearances(rows, <<>>)
        IN /\ \A i, j \in 1..Len(locs) : i # j => locs[i] # locs[j]
           /\ named = entries
           /\ \A name \in RoundTripNames :
                lookup_trie(build.trie, name)
                  = ExpectedIndices(rows, name, entries)

\* Main St read twice from the same row, once from another, then Second St
C10_Witness ==
    /\ pc = "rows"
    /\ Len(rows) = 4
    /\ rows[1] = rows[2]
    /\ Len(build.locations) = 3
    /\ lookup_trie(build.trie, MainSt) = <<0, 0, 1>>
    /\ lookup_trie(build.trie, SecondSt) = <<2>>

(***************************************************************************)
(* The kinds of a file's values in emission order: nodes in level order,   *)
(* list order inside a node.                                               *)
(***************************************************************************)
RECURSIVE Flatten(_)
Flatten(lists) ==
    IF lists = <<>> THEN <<>> ELSE Head(lists) \o Flatten(Tail(lists))

EmittedKinds ==
    LET emitted == Flatten(build_louds(build.trie).values_per_node)
    IN  [k \in 1..Len(emitted) |-> build.locations[emitted[k] + 1][5]]

(***************************************************************************)
(* C6: nibble packing.  With the V values of a file numbered from 0 in     *)
(* emission order, the file holds exactly ceil(V/2) kind bytes; kind byte  *)
(* j carries the kind of value 2j in its low 4 bits and the kind of value  *)
(* 2j+1 in its high 4 bits (the first value's kind opens the first byte:   *)
(* no nibble is pending when a file starts), and for odd V the high nibble *)
(* of the last kind byte is zero.                                          *)
(***************************************************************************)
C6_NibblePacking ==
    pc = "packed" =>
        LET p == parse_packed_trie(out.bytes)
            kinds == EmittedKinds
            V == Len(kinds)
        IN /\ p.t = "ok"
           /\ Len(p.values) = V
           /\ Len(p.kind_bytes) = (V + 1) \div 2
           /\ \A j \in 0..(((V + 1) \div 2) - 1) :
                /\ p.kind_bytes[j + 1] % 16 = kinds[2 * j + 1]
                /\ p.kind_bytes[j + 1] \div 16
                     = IF 2 * j + 1 < V THEN kinds[2 * j + 2] ELSE 0

\* three values: a full kind byte with two different non-zero nibbles, then
\* the trailing byte of the odd value
C6_Witness ==
    /\ pc = "packed"
    /\ Len(EmittedKinds) = 3
    /\ EmittedKinds[1] # 0
    /\ EmittedKinds[2] # 0
    /\ EmittedKinds[1] # EmittedKinds[2]
    /\ EmittedKinds[3] # 0
    /\ LET p == parse_packed_trie(out.bytes)
       IN /\ Len(p.kind_bytes) = 2
          /\ p.kind_bytes[2] = EmittedKinds[3]

(***************************************************************************)
(* The layout of a file whose per-node value blocks hold the numeric       *)
(* fields only and whose kind bytes follow as one trailing stream.         *)
(***************************************************************************)
\* the numeric fields of the values k+1 .. k+n read from a file
RECURSIVE NumericFields(_, _, _)
NumericFields(p, k, n) ==
    IF n = 0 THEN <<>>
    ELSE LET v == p.values[k + 1]
         IN ToBytes3(v[1]) \o ToBytes3(v[2])
            \o encode_varint(v[3]) \o encode_varint(v[4])
            \o NumericFields(p, k + 1, n - 1)

\* the value blocks of the nodes from node on: count, then numeric fields
RECURSIVE ValueBlocks(_, _)
ValueBlocks(p, node) ==
    IF node >= p.node_count THEN <<>>
    ELSE encode_varint(p.value_counts[node + 1])
         \o NumericFields(p, SumTo(p.value_counts, node),
                          p.value_counts[node + 1])
         \o ValueBlocks(p, node + 1)

\* nibbles two per byte, the first of a pair low; a last odd nibble alone
RECURSIVE KindStream(_)
KindStream(kinds) ==
    IF kinds = <<>> THEN <<>>
    ELSE IF Len(kinds) = 1 THEN <<kinds[1]>>
    ELSE <<kinds[1] + 16 * kinds[2]>> \o KindStream(SubSeq(kinds, 3, Len(kinds)))

TrailingKindLayout(p) ==
    SubSeq(out.bytes, 1, p.values_offset)
    \o ValueBlocks(p, 0) \o KindStream(EmittedKinds)

(***************************************************************************)
(* C5 as stated: for every number of values the bytes pack_trie writes,    *)
(* with each completed kind byte inline after the numeric fields of the    *)
(* second value of a pair, are the bytes of the layout with all value      *)
(* blocks first and the kind stream trailing.                              *)
(***************************************************************************)
C5_InlineIsTrailingLayout ==
    pc = "packed" =>
        LET p == parse_packed_trie(out.bytes)
        IN  p.t = "ok" /\ out.bytes = TrailingKindLayout(p)

(***************************************************************************)
(* C5 amended: the bytes pack_trie writes for a trie built by build_trie   *)
(* are the bytes of the trailing-kind-stream layout when the file holds at *)
(* most two values: the only kind byte is then the last byte written.      *)
(***************************************************************************)
C5_InlineIsTrailingLayoutUpToTwo ==
    (pc = "packed" /\ Len(EmittedKinds) <= 2) =>
        LET p == parse_packed_trie(out.bytes)
        IN  p.t = "ok" /\ out.bytes = TrailingKindLayout(p)

\* two values of different kinds in two nodes, one kind byte closing the file
C5_Witness ==
    /\ pc = "packed"
    /\ Len(EmittedKinds) = 2
    /\ EmittedKinds[1] # EmittedKinds[2]
    /\ LET p == parse_packed_trie(out.bytes)
       IN /\ p.value_counts = <<0, 1, 1>>
          /\ out.bytes[Len(out.bytes)] = EmittedKinds[1] + 16 * EmittedKinds[2]
          /\ out.bytes = TrailingKindLayout(p)

(***************************************************************************)
(* C7 as stated: in the packed output the labels of the edges leaving any  *)
(* one node are pairwise distinct and no two of them begin with the same   *)
(* byte.                                                                   *)
(***************************************************************************)
C7_NoCommonFirstByte ==
    pc = "packed" =>
        LET p == parse_packed_trie(out.bytes)
        IN \A node \in 0..(p.node_count - 1) :
             \A e1, e2 \in NodeEdges(p, node) :
                e1 # e2 =>
                   /\ p.edge_labels[e1 + 1] # p.edge_labels[e2 + 1]
                   /\ p.edge_labels[e1 + 1][1] # p.edge_labels[e2 + 1][1]

(***************************************************************************)
(* C7 amended: in the packed output the labels of the edges leaving any    *)
(* one node are non-empty, pairwise distinct, and no two of them begin     *)
(* with the same character (the UTF-8 bytes of one code point), so none is *)
(* a prefix of another; two labels may begin with the same byte.           *)
(***************************************************************************)
\* the bytes of the first character of a UTF-8 string
FirstCharacter(bytes) ==
    LET lead == bytes[1]
        n == IF lead < 128 THEN 1 ELSE IF lead < 224 THEN 2
             ELSE IF lead < 240 THEN 3 ELSE 4
    IN  SubSeq(bytes, 1, n)

C7_NoCommonFirstCharacter ==
    pc = "packed" =>
        LET p == parse_packed_trie(out.bytes)
        IN \A node \in 0..(p.node_count - 1) :
             \A e1, e2 \in NodeEdges(p, node) :
                LET l1 == p.edge_labels[e1 + 1]
                    l2 == p.edge_labels[e2 + 1]
                IN /\ l1 # <<>>
                   /\ e1 # e2 =>
                        /\ l1 # l2
                        /\ FirstCharacter(l1) # FirstCharacter(l2)
                        /\ ~ IsPrefix(l1, l2)

\* the root has the edges C3 A9 and C3 A8 61 next to an ASCII one
C7_Witness ==
    /\ pc = "packed"
    /\ LET p == parse_packed_trie(out.bytes)
       IN /\ \E e1, e2 \in NodeEdges(p, 0) :
               /\ p.edge_labels[e1 + 1] = <<195, 169>>
               /\ p.edge_labels[e2 + 1] = <<195, 168, 97>>
          /\ \E e \in NodeEdges(p, 0) : p.edge_labels[e + 1][1] < 128

(***************************************************************************)
(* Reading a shard back.                                                   *)
(***************************************************************************)
\* a location entry with its two names written out
NamedEntry(shard, loc) ==
    <<loc[1], loc[2], shard.node_names[loc[3] + 1],
      shard.city_names[loc[4] + 1], loc[5]>>

\* the entries reachable under name in a shard's trie, in list order
ShardEntries(shard, name) ==
    LET values == lookup_trie(shard.trie, name)
    IN  [i \in 1..Len(values) |->
            NamedEntry(shard, shard.locations[values[i] + 1])]

ShardKeyOf(row) == shard_key_for_name(Strip(row.streetname), shard_len)

\* the names rows can carry in shard mode
ShardNames == { Foo, Foobar, Bar, Baz, Swiss, <<224>>, <<223, 57>>, <<45>> }

\* the tuples of the accepted rows of a name, in row order
RECURSIVE TuplesOf(_, _)
TuplesOf(read, name) ==
    IF read = <<>> THEN <<>>
    ELSE (IF RowAccepted(Head(read)) /\ Strip(Head(read).streetname) = name
          THEN <<RowTuple(Head(read))>> ELSE <<>>)
         \o TuplesOf(Tail(read), name)

(***************************************************************************)
(* C9: shard disjointness.  While build_trie_shards reads rows, the shards *)
(* that exist are the shard keys of the accepted rows (non-empty name,     *)
(* parseable coordinates, defined shard key), and each shard holds the     *)
(* location entries and trie values of the accepted rows whose name has    *)
(* its key and of no other row: a row is added to exactly one shard, the   *)
(* one keyed shard_key_for_name(name, shard_len).                          *)
(***************************************************************************)
C9_ShardDisjointness ==
    pc = "rows" =>
        LET accepted == SelectSeq(rows, LAMBDA r :
                            RowAccepted(r) /\ ShardKeyOf(r) # NoShardKey)
        IN /\ DOMAIN shards = {ShardKeyOf(accepted[i]) : i \in 1..Len(accepted)}
           /\ \A k \in DOMAIN shards :
                LET mine == SelectSeq(accepted, LAMBDA r : ShardKeyOf(r) = k)
                    locs == shards[k].locations
                IN /\ [i \in 1..Len(locs) |-> NamedEntry(shards[k], locs[i])]
                        = FirstAppearances(mine, <<>>)
                   /\ \A name \in ShardNames :
                        ShardEntries(shards[k], name) = TuplesOf(mine, name)

\* Foo, Bar, Foobar with prefix length 3: shards "foo" and "bar"; Foo and
\* Foobar are in "foo" only
C9_Witness ==
    /\ pc = "rows"
    /\ shard_len = 3
    /\ Len(rows) = 3
    /\ rows[1].streetname = Foo
    /\ rows[2].streetname = Bar
    /\ rows[3].streetname = Foobar
    /\ DOMAIN shards = { <<102, 111, 111>>, <<98, 97, 114>> }
    /\ lookup_trie(shards[<<102, 111, 111>>].trie, Foo) = <<0>>
    /\ lookup_trie(shards[<<102, 111, 111>>].trie, Foobar) = <<1>>
    /\ lookup_trie(shards[<<98, 97, 114>>].trie, Foo) = <<>>
    /\ Len(shards[<<98, 97, 114>>].locations) = 1

(***************************************************************************)
(* C8 as stated: with prefix length 3 and the country (CH, Switzerland),   *)
(* after build_trie_shards the shard keyed "swi" has an entry of kind 10   *)
(* reachable under "Switzerland", and the shard keyed "ch_" has an entry   *)
(* reachable under "CH".                                                   *)
(***************************************************************************)
Switzerland == <<83, 119, 105, 116, 122, 101, 114, 108, 97, 110, 100>>

C8_CountryCodeShard ==
    (pc = "built" /\ shard_len = 3 /\ countries_path = "file") =>
        /\ <<115, 119, 105>> \in DOMAIN shards
        /\ \E i \in 1..Len(ShardEntries(shards[<<115, 119, 105>>], Switzerland)) :
              ShardEntries(shards[<<115, 119, 105>>], Switzerland)[i][5] = 10
        /\ <<99, 104, 95>> \in DOMAIN shards
        /\ ShardEntries(shards[<<99, 104, 95>>], <<67, 72>>) # <<>>

\* what build_trie_shards does: both entries are in the shard "swi", and
\* the countries loop makes no shard "ch_"
C8_CodeInNameShard ==
    (pc = "built" /\ shard_len = 3 /\ countries_path = "file") =>
        /\ <<115, 119, 105>> \in DOMAIN shards
        /\ \E i \in 1..Len(ShardEntries(shards[<<115, 119, 105>>], Switzerland)) :
              ShardEntries(shards[<<115, 119, 105>>], Switzerland)[i][5] = 10
        /\ ShardEntries(shards[<<115, 119, 105>>], <<67, 72>>)
             = << <<82, 468, <<67, 72>>, Switzerland, 10>> >>
        /\ <<99, 104, 95>> \notin DOMAIN shards

(***************************************************************************)
(* C11: name table resolvability.  In every packed file each value's       *)
(* node_idx and city_idx is an index into the decoded node and city table, *)
(* and the string found there is the string the location entry's original  *)
(* index had in the unsorted table; old_to_new of reindex_names is a       *)
(* permutation under which every name keeps its string.                    *)
(***************************************************************************)
\* old_to_new maps 0..n-1 onto 0..n-1 and new_names[old_to_new[i]] = names[i]
IsNamePermutation(names, reindexed) ==
    /\ Len(reindexed.new_names) = Len(names)
    /\ Len(reindexed.old_to_new) = Len(names)
    /\ {reindexed.old_to_new[i] : i \in 1..Len(names)} = 0..(Len(names) - 1)
    /\ \A i \in 1..Len(names) :
          reindexed.new_names[reindexed.old_to_new[i] + 1] = names[i]

C11_NameTableResolvable ==
    pc = "packed" =>
        LET p == parse_packed_trie(out.bytes)
            emitted == Flatten(build_louds(build.trie).values_per_node)
        IN /\ p.t = "ok"
           /\ Len(p.values) = Len(emitted)
           /\ \A k \in 1..Len(emitted) :
                LET loc == build.locations[emitted[k] + 1]
                    v == p.values[k]
                IN /\ v[3] \in 0..(Len(p.place_nodes) - 1)
                   /\ v[4] \in 0..(Len(p.place_cities) - 1)
                   /\ p.place_nodes[v[3] + 1] = Utf8(build.node_names[loc[3] + 1])
                   /\ p.place_cities[v[4] + 1] = Utf8(build.city_names[loc[4] + 1])
           /\ IsNamePermutation(build.node_names, reindex_names(build.node_names))
           /\ IsNamePermutation(build.city_names, reindex_names(build.city_names))

\* cities first used in the order C, A, B: sorting moves them in a 3-cycle
C11_Witness ==
    /\ pc = "packed"
    /\ build.city_names = << <<>>, CityC, CityA, CityB >>
    /\ reindex_names(build.city_names).old_to_new = <<0, 3, 1, 2>>
    /\ LET p == parse_packed_trie(out.bytes)
       IN /\ Len(p.values) = 3
          /\ p.place_cities = << <<>>, Utf8(CityA), Utf8(CityB), Utf8(CityC) >>

(***************************************************************************)
(* Decoding a front-coded name table: each entry is the first prefix_len   *)
(* bytes of the entry before it, followed by its suffix.                   *)
(***************************************************************************)
DecodeTable(bytes) ==
    LET count == decode_varint(bytes, 0)
    IN  IF IsRaised(count) THEN Raised
        ELSE ReadNameTable(bytes, count.offset, count.value, <<>>, <<>>)

\* a before b as byte strings
RECURSIVE BytesLess(_, _)
BytesLess(a, b) ==
    IF b = <<>> THEN FALSE
    ELSE IF a = <<>> THEN TRUE
    ELSE IF a[1] # b[1] THEN a[1] < b[1]
    ELSE BytesLess(Tail(a), Tail(b))

(***************************************************************************)
(* C12: name table ordering.  For any list of names (unsorted, with        *)
(* repeated names, with characters of every UTF-8 length), the table       *)
(* pack_trie emits decodes to as many names, and each decoded name is, as  *)
(* a byte string, not less than the one before it.                         *)
(***************************************************************************)
C12_EmittedTableSorted ==
    pc = "emitted" =>
        LET decoded == DecodeTable(result.bytes)
        IN /\ decoded.t = "ok"
           /\ decoded.offset = Len(result.bytes)
           /\ Len(decoded.names) = Len(args)
           /\ \A i \in 1..(Len(decoded.names) - 1) :
                ~ BytesLess(decoded.names[i + 1], decoded.names[i])

\* U+10000, U+FFFF, U+FFFF given in this order: sorted by code point, which
\* is also the order of the UTF-8 bytes, with the repeated name kept twice
C12_Witness ==
    /\ pc = "emitted"
    /\ args = << <<65536>>, <<65535>>, <<65535>> >>
    /\ DecodeTable(result.bytes).names
         = << <<239, 191, 191>>, <<239, 191, 191>>, <<240, 144, 128, 128>> >>

\* the prefix_len varint of each entry of a front-coded name table
RECURSIVE ReadPrefixLens(_, _, _, _)
ReadPrefixLens(data, offset, count, lens) ==
    IF count = 0 THEN lens
    ELSE LET prefix_len == decode_varint(data, offset)
             suffix_len == decode_varint(data, prefix_len.offset)
         IN  ReadPrefixLens(data, suffix_len.offset + suffix_len.value,
                            count - 1, Append(lens, prefix_len.value))

\* the number of leading bytes a and b have in common
LongestCommonPrefix(a, b) ==
    LET shorter == IF Len(a) < Len(b) THEN Len(a) ELSE Len(b)
    IN  CHOOSE n \in 0..shorter :
            /\ SubSeq(a, 1, n) = SubSeq(b, 1, n)
            /\ (n = shorter \/ a[n + 1] # b[n + 1])

(***************************************************************************)
(* C13: front coding.  For any list of names, the output of                *)
(* encode_prefix_table starts with the number of names, and decoding each  *)
(* entry as the first prefix_len bytes of the entry decoded before it      *)
(* followed by its suffix gives the UTF-8 bytes of the names, in the order *)
(* of the list.  The first prefix_len is 0, and every prefix_len is the    *)
(* length of the longest common byte prefix of the entry and the one       *)
(* before it, so it exceeds the length of neither.                         *)
(***************************************************************************)
C13_FrontCodingRoundTrip ==
    pc = "encoded" =>
        LET count == decode_varint(result.bytes, 0)
            decoded == DecodeTable(result.bytes)
            lens == ReadPrefixLens(result.bytes, count.offset, count.value, <<>>)
        IN /\ count.value = Len(args)
           /\ decoded.t = "ok"
           /\ decoded.offset = Len(result.bytes)
           /\ decoded.names = [i \in 1..Len(args) |-> Utf8(args[i])]
           /\ Len(args) > 0 => lens[1] = 0
           /\ \A i \in 2..Len(args) :
                /\ lens[i] = LongestCommonPrefix(Utf8(args[i - 1]), Utf8(args[i]))
                /\ lens[i] <= Len(Utf8(args[i - 1]))
                /\ lens[i] <= Len(Utf8(args[i]))

\* "ab", "a", U+00E9 in this order: "a" shares its only byte with "ab" and
\* has an empty suffix, U+00E9 shares nothing with "a"
C13_Witness ==
    /\ pc = "encoded"
    /\ args = << <<97, 98>>, <<97>>, <<233>> >>
    /\ result.bytes = <<3, 0, 2, 97, 98, 1, 0, 0, 2, 195, 169>>

\* the node reached from node along the remaining bytes, -1 when there is none
RECURSIVE LoudsNode(_, _, _)
LoudsNode(p, node, remaining) ==
    IF remaining = <<>> THEN node
    ELSE LET match == {e \in NodeEdges(p, node) :
                          IsPrefix(p.edge_labels[e + 1], remaining)}
         IN IF match = {} THEN -1
            ELSE LET e == CHOOSE x \in match : TRUE
                     label == p.edge_labels[e + 1]
                 IN LoudsNode(p, e + 1,
                              SubSeq(remaining, Len(label) + 1, Len(remaining)))

\* <<node_idx, city_idx>> of the values stored under key, as emitted
EmittedIndices(p, key) ==
    LET node == LoudsNode(p, 0, Utf8(key))
    IN  IF node = -1 THEN <<>>
        ELSE [j \in 1..p.value_counts[node + 1] |->
                LET v == p.values[SumTo(p.value_counts, node) + j]
                IN <<v[3], v[4]>>]

(***************************************************************************)
(* What is stored where.  What goes into the shard of a name              *)
(* is, in order: the accepted rows, under their name, with their node and  *)
(* city fields as read (trimmed); then each country under its name and,    *)
(* when it has a code, under the code, with the code for its node and the  *)
(* name for its city; its kind is "country".                               *)
(***************************************************************************)
RowSource(row) ==
    [route |-> Strip(row.streetname), key |-> Strip(row.streetname),
     node |-> Strip(row.city_place_node), city |-> Strip(row.city_place_city),
     kind |-> row.kind]

CountrySources(country) ==
    << [route |-> country[2], key |-> country[2],
        node |-> country[1], city |-> country[2],
        kind |-> <<99, 111, 117, 110, 116, 114, 121>>] >>
    \o (IF country[1] = <<>> THEN <<>>
        ELSE << [route |-> country[2], key |-> country[1],
                 node |-> country[1], city |-> country[2],
                 kind |-> <<99, 111, 117, 110, 116, 114, 121>>] >>)

RECURSIVE AllCountrySources(_)
AllCountrySources(countries) ==
    IF countries = <<>> THEN <<>>
    ELSE CountrySources(Head(countries)) \o AllCountrySources(Tail(countries))

\* what the rows read so far put into the shards
RowSources ==
    LET accepted == SelectSeq(rows, RowAccepted)
    IN  [i \in 1..Len(accepted) |-> RowSource(accepted[i])]

\* what the shards hold once the countries are added
IngestedSources ==
    RowSources \o AllCountrySources(load_countries(countries_path).l)

\* each source with the shard it is routed to
RECURSIVE Routed(_)
Routed(sources) ==
    IF sources = <<>> THEN <<>>
    ELSE << [src |-> Head(sources),
             shard |-> shard_key_for_name(Head(sources).route, shard_len)] >>
         \o Routed(Tail(sources))

\* every key under which something is stored
SourceKeys(routed) == {routed[i].src.key : i \in 1..Len(routed)}

\* the sources stored under key in shard k, in order
StoredUnder(routed, k, key) ==
    SelectSeq(routed, LAMBDA r : r.src.key = key /\ r.shard = k)

\* per value stored under key in shard k: is its node empty, is its city empty
ExpectedEmpty(routed, k, key) ==
    LET mine == StoredUnder(routed, k, key)
    IN  [i \in 1..Len(mine) |-> <<mine[i].src.node = <<>>, mine[i].src.city = <<>>>>]

(***************************************************************************)
(* C14: in every shard, while rows are read, after the countries are added *)
(* and in the tables written, entry 0 of the node table and of the city    *)
(* table is the empty string (and while rows are read the empty string     *)
(* looks up as 0); every value written has node_idx 0 exactly when the     *)
(* node field of its row is empty, and city_idx 0 exactly when the city    *)
(* field is.                                                               *)
(***************************************************************************)
C14_IndexZeroReserved ==
    /\ pc \in {"rows", "built", "written"} =>
         \A k \in DOMAIN shards :
            /\ shards[k].node_names[1] = <<>>
            /\ shards[k].city_names[1] = <<>>
            /\ pc = "rows" => /\ shards[k].node_index[<<>>] = 0
                              /\ shards[k].city_index[<<>>] = 0
    /\ pc = "written" =>
         LET routed == Routed(IngestedSources)
         IN /\ DOMAIN out.files = DOMAIN shards
            /\ \A k \in DOMAIN out.files :
                 LET p == parse_packed_trie(out.files[k])
                 IN /\ p.t = "ok"
                    /\ p.place_nodes[1] = <<>>
                    /\ p.place_cities[1] = <<>>
                    /\ \A key \in SourceKeys(routed) :
                         LET got == EmittedIndices(p, key)
                         IN [j \in 1..Len(got) |-> <<got[j][1] = 0, got[j][2] = 0>>]
                              = ExpectedEmpty(routed, k, key)

\* prefix length 1: the row in shard "_" has a lone space for its node and no
\* city (both index 0), Swiss in shard "s" has neither, Foo in shard "f" has
\* both; Switzerland is in "s" with its code CH as node
C14_Witness ==
    /\ pc = "written"
    /\ shard_len = 1
    /\ countries_path = "file"
    /\ rows = << Row(<<223, 57>>, Street, "1.0", "2.0", <<32>>, <<>>),
                 Row(Swiss, Street, "8.2", "46.8", <<>>, <<>>),
                 Row(Foo, Street, "1.0", "2.0", NodeA, CityA) >>
    /\ EmittedIndices(parse_packed_trie(out.files[<<95>>]), <<223, 57>>)
         = << <<0, 0>> >>
    /\ EmittedIndices(parse_packed_trie(out.files[<<102>>]), Foo)
         = << <<1, 1>> >>
    /\ LET p == parse_packed_trie(out.files[<<115>>])
       IN /\ EmittedIndices(p, Swiss) = << <<0, 0>> >>
          /\ EmittedIndices(p, <<67, 72>>) = << <<1, 1>> >>
          /\ p.place_nodes = << <<>>, <<67, 72>> >>

(***************************************************************************)
(* The kind vocabulary: street=0 .. country=10, unspecified=15.            *)
(***************************************************************************)
KindValues == (0..10) \cup {15}

(***************************************************************************)
(* C15: kind values outside the vocabulary fail the build.  When a         *)
(* location entry given to pack_trie has a kind_byte outside {0..10, 15},  *)
(* pack_trie raises and returns no bytes.                                  *)
(***************************************************************************)
C15_UnknownKindFails ==
    (pc \in {"raised", "returned"}
       /\ \E i \in 1..Len(args.locations) : args.locations[i][5] \notin KindValues)
    => pc = "raised"

\* what pack_trie does with such a kind byte instead: with coordinates that
\* fit and a valid scale it returns, and the nibble written is kind_byte & 15
C15_KindMasked ==
    (pc \in {"raised", "returned"}
       /\ args.scale \in 0..16777215
       /\ \A i \in 1..Len(args.locations) :
             /\ FitsSigned24(FixedPoint(args.locations[i][1], args.scale))
             /\ FitsSigned24(FixedPoint(args.locations[i][2], args.scale)))
    => /\ pc = "returned"
       /\ LET p == parse_packed_trie(result.bytes)
          IN \A i \in 1..Len(args.locations) :
                KindNibble(p, i) = args.locations[i][5] % 16

(***************************************************************************)
(* The eleven kind tags in the order of their values 0..10.                *)
(***************************************************************************)
KindVocabulary ==
    << <<115, 116, 114, 101, 101, 116>>,                                \* street
       <<97, 105, 114, 112, 111, 114, 116>>,                            \* airport
       <<116, 114, 97, 105, 110, 95, 115, 116, 97, 116, 105, 111, 110>>,
       <<98, 117, 115, 95, 115, 116, 111, 112>>,                        \* bus_stop
       <<102, 101, 114, 114, 121, 95, 116, 101, 114, 109, 105, 110, 97, 108>>,
       <<117, 110, 105, 118, 101, 114, 115, 105, 116, 121>>,            \* university
       <<109, 117, 115, 101, 117, 109>>,                                \* museum
       <<99, 105, 118, 105, 99, 95, 98, 117, 105, 108, 100, 105, 110, 103>>,
       <<115, 105, 103, 104, 116>>,                                     \* sight
       <<99, 105, 116, 121>>,                                           \* city
       <<99, 111, 117, 110, 116, 114, 121>> >>                          \* country

\* the value of a kind text: its place in the vocabulary, 15 when it has none
ExpectedKind(text) ==
    LET tag == Lower(Strip(text))
        known == {i \in 1..Len(KindVocabulary) : KindVocabulary[i] = tag}
    IN  IF known = {} THEN 15 ELSE (CHOOSE i \in known : TRUE) - 1

\* the kind nibbles of the values stored under key, as emitted
EmittedKindsAt(p, key) ==
    LET node == LoudsNode(p, 0, Utf8(key))
    IN  IF node = -1 THEN <<>>
        ELSE [j \in 1..p.value_counts[node + 1] |->
                KindNibble(p, SumTo(p.value_counts, node) + j)]

\* whether a kind text is none of the eleven tags
UnknownKind(text) ==
    Lower(Strip(text)) \notin {KindVocabulary[n] : n \in 1..Len(KindVocabulary)}

(***************************************************************************)
(* C16: no row is misclassified.  The kind byte stored for an ingested row *)
(* is the vocabulary value of its kind text, trimmed and lower-cased, when *)
(* that is one of the eleven tags, and 15 otherwise (an empty kind         *)
(* included); the kind nibble written for the row is that value, so a row  *)
(* of unknown kind never gets a value in 0..10.                            *)
(***************************************************************************)
C16_NoMisclassification ==
    /\ pc = "rows" =>
         LET routed == Routed(RowSources)
         IN \A k \in DOMAIN shards :
               \A key \in SourceKeys(routed) :
                  LET got == ShardEntries(shards[k], key)
                      mine == StoredUnder(routed, k, key)
                  IN /\ Len(got) = Len(mine)
                     /\ \A j \in 1..Len(mine) :
                           got[j][5] = ExpectedKind(mine[j].src.kind)
    /\ pc = "written" =>
         LET routed == Routed(IngestedSources)
         IN \A k \in DOMAIN out.files :
               LET p == parse_packed_trie(out.files[k])
               IN \A key \in SourceKeys(routed) :
                     LET got == EmittedKindsAt(p, key)
                         mine == StoredUnder(routed, k, key)
                     IN /\ Len(got) = Len(mine)
                        /\ \A j \in 1..Len(mine) :
                              /\ got[j] = ExpectedKind(mine[j].src.kind)
                              /\ UnknownKind(mine[j].src.kind)
                                    => got[j] \notin 0..10

\* prefix length 1, no countries: " Museum " is written as 6, the empty kind
\* and "foobar" as 15
C16_Witness ==
    /\ pc = "written"
    /\ shard_len = 1
    /\ countries_path = "none"
    /\ Len(rows) = 3
    /\ rows[1].streetname = Foobar
    /\ rows[2].streetname = Bar
    /\ rows[3].streetname = <<32, 224>>
    /\ EmittedKindsAt(parse_packed_trie(out.files[<<102>>]), Foobar) = <<6>>
    /\ EmittedKindsAt(parse_packed_trie(out.files[<<98>>]), Bar) = <<15>>
    /\ EmittedKindsAt(parse_packed_trie(out.files[<<97>>]), <<224>>) = <<15>>

(***************************************************************************)
(* A second run of main on the same CSV and the same countries file.       *)
(***************************************************************************)
RECURSIVE RerunRows(_, _)
RerunRows(b, read) ==
    IF read = <<>> THEN b
    ELSE LET next == BuildTrieRow(b, Head(read))
         IN IF IsRaised(next) THEN Raised ELSE RerunRows(next, Tail(read))

Rerun(read, path) ==
    LET b == RerunRows(NewBuilder, read)
        countries == load_countries(path)
        built == add_countries_to_trie(b, countries.l)
    IN  IF IsRaised(b) \/ countries.t = "error" THEN Raised
        ELSE IF IsRaised(built) THEN Raised
        ELSE pack_trie(built.locations, built.node_names, built.city_names,
                       compress_trie(built.trie), DEFAULT_SCALE)

\* every order in which the labels of a set can come
RECURSIVE Orders(_)
Orders(labels) ==
    IF labels = {} THEN {<<>>}
    ELSE UNION { { <<x>> \o rest : rest \in Orders(labels \ {x}) } : x \in labels }

\* ways to put the keys of a dict in another order
ReorderWays == {"reversed", "rotated"}

\* the keys of one dict in another order: last to first, or the first key
\* moved to the end
Reorder(keys, how) ==
    IF keys = <<>> THEN keys
    ELSE IF how = "reversed"
    THEN [i \in 1..Len(keys) |-> keys[Len(keys) + 1 - i]]
    ELSE Append(Tail(keys), Head(keys))

\* the trie with the same keys and values whose dicts, at every node, yield
\* their keys in another order
RECURSIVE Reordered(_, _)
Reordered(node, how) ==
    IF node.t # "dict" THEN node
    ELSE [t |-> "dict",
          m |-> [k \in DOMAIN node.m |-> Reordered(node.m[k], how)],
          o |-> Reorder(node.o, how)]

(***************************************************************************)
(* C17: trie determinism.  The bytes written are a function of the rows    *)
(* read and the countries table: a second run on them gives the same       *)
(* bytes.  The bytes do not depend on the order in which the edge maps     *)
(* yield their edges: pack_trie on the trie with the keys of every node    *)
(* reversed, or rotated, returns the very bytes written; in the bytes      *)
(* written, as the reader parses them, the labels of the edges leaving any *)
(* one node are strictly increasing (byte order of UTF-8 is code point     *)
(* order); and for every node of the compressed trie, every order of its   *)
(* edges sorts to the one sequence of labels build_louds emits.            *)
(***************************************************************************)
C17_TrieDeterminism ==
    pc = "packed" =>
        LET p == parse_packed_trie(out.bytes)
        IN
        /\ out = Rerun(rows, countries_path)
        /\ \A how \in ReorderWays :
              pack_trie(build.locations, build.node_names, build.city_names,
                        Reordered(build.trie, how), DEFAULT_SCALE) = out
        /\ \A node \in 0..(p.node_count - 1) :
              \A e1, e2 \in NodeEdges(p, node) :
                 e1 < e2 => StrLess(p.edge_labels[e1 + 1], p.edge_labels[e2 + 1])
        /\ \A d \in {<<<<>>, build.trie>>} \cup Descendants(build.trie, <<>>) :
              LET labels == (DOMAIN d[2].m) \ {TERMINAL_KEY}
                  emitted == SortedEdges(d[2])
              IN /\ \A order \in Orders(labels) : SortLabels(order) = emitted
                 /\ \A i \in 1..(Len(emitted) - 1) :
                       StrLess(emitted[i], emitted[i + 1])

\* four names with four first characters and the countries: the root has six
\* edges (CH, Main St, S, and the three non-ASCII ones), 720 orders; its
\* dict yields "èa" first, which is emitted fifth, and the reordered tries
\* are other tries than the one packed
C17_Witness ==
    /\ pc = "packed"
    /\ countries_path = "file"
    /\ Cardinality(DOMAIN build.trie.m) = 6
    /\ rows[1].streetname = <<232, 97>>
    /\ rows[2].streetname = SecondSt
    /\ IterationOrder(build.trie)[1] = <<232, 97>>
    /\ SortedEdges(build.trie)[1] = <<67, 72>>
    /\ IterationOrder(build.trie) # SortedEdges(build.trie)
    /\ \A how \in ReorderWays :
          /\ IterationOrder(Reordered(build.trie, how)) # IterationOrder(build.trie)
          /\ pack_trie(build.locations, build.node_names, build.city_names,
                       Reordered(build.trie, how), DEFAULT_SCALE) = out
    /\ LET p == parse_packed_trie(out.bytes)
       IN  /\ Cardinality(NodeEdges(p, 0)) = 6
           /\ p.edge_labels[5] = <<195, 168, 97>>
    /\ out = Rerun(rows, countries_path)

(***************************************************************************)
(* The sharding scenario: the CSV held Foo, Foobar, Bar and Baz, and       *)
(* build_trie_shards has returned.                                         *)
(***************************************************************************)
ScenarioBuilt ==
    /\ pc \in {"built", "written"}
    /\ {rows[i].streetname : i \in 1..Len(rows)} = {Foo, Foobar, Bar, Baz}

\* C18 as stated: with prefix length 3 and the rows Foo, Foobar, Bar and Baz
\* (no countries) there are two shards, and the trie of the shard "foo"
\* contains Foo and Foobar
C18_TwoShards ==
    ScenarioBuilt =>
        /\ Cardinality(DOMAIN shards) = 2
        /\ <<102, 111, 111>> \in DOMAIN shards
        /\ lookup_trie(shards[<<102, 111, 111>>].trie, Foo) # <<>>
        /\ lookup_trie(shards[<<102, 111, 111>>].trie, Foobar) # <<>>

(***************************************************************************)
(* C18: sharding scenario.  With prefix length 3 and the rows Foo, Foobar, *)
(* Bar and Baz (no countries), build_trie_shards returns three shards,     *)
(* keyed "foo", "bar" and "baz"; the trie of "foo" contains Foo and Foobar *)
(* and nothing of Bar or Baz, the trie of "bar" contains Bar alone and the *)
(* trie of "baz" Baz alone; main writes one file per shard.                *)
(***************************************************************************)
C18_ThreeShards ==
    ScenarioBuilt =>
        /\ DOMAIN shards = { <<102, 111, 111>>, <<98, 97, 114>>, <<98, 97, 122>> }
        /\ \A name \in {Foo, Foobar, Bar, Baz} :
              \A k \in DOMAIN shards :
                 (lookup_trie(shards[k].trie, name) # <<>>)
                    <=> (k = shard_key_for_name(name, 3))
        /\ shard_key_for_name(Foo, 3) = <<102, 111, 111>>
        /\ shard_key_for_name(Foobar, 3) = <<102, 111, 111>>
        /\ shard_key_for_name(Bar, 3) = <<98, 97, 114>>
        /\ shard_key_for_name(Baz, 3) = <<98, 97, 122>>
        /\ pc = "written" => DOMAIN out.files = DOMAIN shards

\* the four rows in the order of the scenario, written
C18_Witness ==
    /\ pc = "written"
    /\ Len(rows) = 4
    /\ rows[1].streetname = Foo
    /\ rows[2].streetname = Foobar
    /\ rows[3].streetname = Bar
    /\ rows[4].streetname = Baz
    /\ Cardinality(DOMAIN shards) = 3
    /\ lookup_trie(shards[<<102, 111, 111>>].trie, Foo) = <<0>>
    /\ lookup_trie(shards[<<102, 111, 111>>].trie, Foobar) = <<1>>

(***************************************************************************)
(* C19: shard key format.  For len > 0 and a name whose normalisation is   *)
(* not empty, shard_key_for_name returns exactly len characters, each one  *)
(* of a-z, 0-9 and _: the first len characters of the normalised name,     *)
(* those that are not ASCII letters or digits replaced by _, padded on the *)
(* right with _.  For len <= 0 or an empty normalisation there is no key.  *)
(***************************************************************************)
AsciiAlnum == (48..57) \cup (65..90) \cup (97..122)

KeyAlphabet == (97..122) \cup (48..57) \cup {95}

C19_ShardKeyFormat ==
    pc = "returned" =>
        LET name == args[1]
            len == args[2]
            normalised == normalize_name(name)
        IN IF len <= 0 \/ normalised = <<>>
           THEN result.t = "none"
           ELSE /\ result.t = "ok"
                /\ Len(result.key) = len
                /\ \A i \in 1..len :
                      /\ result.key[i] \in KeyAlphabet
                      /\ result.key[i] =
                           IF i <= Len(normalised) /\ normalised[i] \in AsciiAlnum
                           THEN normalised[i] ELSE 95

\* the one-letter name a-grave with length 3 gives "a__"
C19_Witness ==
    /\ pc = "returned"
    /\ args = << <<224>>, 3 >>
    /\ result.t = "ok"
    /\ result.key = <<97, 95, 95>>

(***************************************************************************)
(* Rows that are dropped: by build_trie for an empty name or a coordinate  *)
(* that does not parse, by build_trie_shards also for a name without       *)
(* shard key.                                                              *)
(***************************************************************************)
DroppedRow(row) ==
    \/ Strip(row.streetname) = <<>>
    \/ ~ IsFloat(row.center_lon)
    \/ ~ IsFloat(row.center_lat)

DroppedInShardMode(row) ==
    \/ DroppedRow(row)
    \/ shard_key_for_name(Strip(row.streetname), shard_len) = NoShardKey

(***************************************************************************)
(* C20: a dropped row changes nothing.  Reading a dropped row leaves the   *)
(* dict of shards as it was (no shard made, no name table, location vector *)
(* or trie changed) and the loop goes on to the next row; the loop body of *)
(* build_trie applied to any shard and a row it drops returns the shard    *)
(* unchanged; every shard that exists holds at least one location entry.   *)
(***************************************************************************)
C20_DroppedRowChangesNothing ==
    /\ [][(pc = "rows" /\ rows' # rows /\ DroppedInShardMode(rows'[Len(rows')]))
             => (shards' = shards /\ pc' = "rows")]_vars
    /\ [](pc \in {"rows", "built", "written"} =>
            \A k \in DOMAIN shards :
               /\ Len(shards[k].locations) >= 1
               /\ pc = "rows" =>
                     \A row \in ShardRows :
                        DroppedRow(row) => BuildTrieRow(shards[k], row) = shards[k])

\* Foo, then a Foo whose latitude is "north", a row named "-" and one named
\* " ", are read with prefix length 3: one shard, with the one node and city
\* of the first row
C20_Witness ==
    /\ pc = "rows"
    /\ shard_len = 3
    /\ Len(rows) = 3
    /\ rows[1] = Row(Foo, Street, "1.0", "2.0", NodeA, CityA)
    /\ rows[2].center_lat = "north"
    /\ rows[3].streetname = <<45>>
    /\ DOMAIN shards = { <<102, 111, 111>> }
    /\ shards[<<102, 111, 111>>].node_names = << <<>>, NodeA >>
    /\ shards[<<102, 111, 111>>].city_names = << <<>>, CityA >>
    /\ Len(shards[<<102, 111, 111>>].locations) = 1

(***************************************************************************)
(* Whether the coordinates of every location fit three signed bytes.       *)
(***************************************************************************)
CoordinatesFit ==
    \A i \in 1..Len(args.locations) :
       /\ FitsSigned24(FixedPoint(args.locations[i][1], args.scale))
       /\ FitsSigned24(FixedPoint(args.locations[i][2], args.scale))

(***************************************************************************)
(* C21: header and scale check.  For a scale in [0, 2^24) what pack_trie   *)
(* returns starts with the bytes S T R I, the version byte 11 and the      *)
(* scale in three bytes, least significant first (and it does return when  *)
(* the coordinates fit); for a scale outside the range pack_trie raises    *)
(* and returns no bytes.                                                   *)
(***************************************************************************)
C21_HeaderAndScale ==
    pc \in {"raised", "returned"} =>
        IF args.scale >= 0 /\ args.scale < 2 ^ 24
        THEN /\ CoordinatesFit => pc = "returned"
             /\ pc = "returned" =>
                  /\ Len(result.bytes) >= 8
                  /\ SubSeq(result.bytes, 1, 5) = <<83, 84, 82, 73, 11>>
                  /\ \A i \in 6..8 : result.bytes[i] \in 0..255
                  /\ result.bytes[6] + 256 * result.bytes[7]
                       + 65536 * result.bytes[8] = args.scale
        ELSE pc = "raised" /\ result = Raised

\* scale 10000 is written as 10 27 00 (hexadecimal)
C21_Witness ==
    /\ pc = "returned"
    /\ args.scale = 10000
    /\ SubSeq(result.bytes, 1, 8) = <<83, 84, 82, 73, 11, 16, 39, 0>>

(***************************************************************************)
(* The calls of PackSpec whose scale and name indices pack_trie accepts,   *)
(* so that only the coordinates decide between output and failure.         *)
(***************************************************************************)
ScaleAccepted == args.scale >= 0 /\ args.scale < 2 ^ 24

\* ten times the distance of the integer v from coordinate * scale, the
\* coordinate being in tenths of a degree
Distance10(v, coordinate, scale) ==
    LET d == 10 * v - coordinate * scale
    IN  IF d < 0 THEN -d ELSE d

\* the j-th coordinate of the i-th packed value, as the reader decodes it
DecodedCoordinate(i, j) == parse_packed_trie(result.bytes).values[i][j]

\* the six coordinate bytes of the i-th packed value: the values section
\* holds the count byte of the root (no values), the count byte of its one
\* child and then the values, each six coordinate bytes and two one byte
\* indices, with one kind byte after every second value
CoordinateBytes(i) ==
    LET start == parse_packed_trie(result.bytes).values_offset + 2
                     + 8 * (i - 1) + (i - 1) \div 2
    IN  SubSeq(result.bytes, start + 1, start + 6)

(***************************************************************************)
(* C22: coordinate encoding and overflow.  With an accepted scale,         *)
(* pack_trie returns when the integer nearest to coordinate * scale is in  *)
(* [-2^23, 2^23 - 1] for every longitude and latitude and raises, without  *)
(* output, when one of them is outside; what it returns holds for every    *)
(* value the nearest integers in three bytes each, least significant byte  *)
(* first, in two's complement, and 180 and 90 degrees of either sign at    *)
(* scale 10000 are read back as 1800000 and 900000 of that sign.           *)
(***************************************************************************)
C22_CoordinateEncoding ==
    (pc \in {"raised", "returned"} /\ ScaleAccepted) =>
        LET n == Len(args.locations)
            product(i, j) == Scaled(args.locations[i][j], args.scale)
            inside(i, j) == /\ product(i, j) >= -(10 * (2 ^ 23)) - 4
                            /\ product(i, j) <= 10 * (2 ^ 23 - 1) + 4
            outside(i, j) == \/ product(i, j) < -(10 * (2 ^ 23)) - 5
                             \/ product(i, j) > 10 * (2 ^ 23 - 1) + 5
        IN  /\ (\A i \in 1..n : \A j \in 1..2 : inside(i, j)) => pc = "returned"
            /\ (\E i \in 1..n : \E j \in 1..2 : outside(i, j))
                  => pc = "raised" /\ result = Raised
            /\ pc = "returned" =>
                  /\ Len(parse_packed_trie(result.bytes).values) = n
                  /\ \A i \in 1..n : \A j \in 1..2 :
                        LET v == DecodedCoordinate(i, j)
                            u == v % (2 ^ 24)
                        IN  /\ v >= -(2 ^ 23) /\ v <= 2 ^ 23 - 1
                            /\ Distance10(v, args.locations[i][j], args.scale) <= 5
                            /\ SubSeq(CoordinateBytes(i), 3 * j - 2, 3 * j)
                                 = <<u % 256, (u \div 256) % 256, u \div 65536>>
                            /\ (args.scale = 10000 /\ args.locations[i][j] = 1800)
                                  => v = 1800000
                            /\ (args.scale = 10000 /\ args.locations[i][j] = -1800)
                                  => v = -1800000
                            /\ (args.scale = 10000 /\ args.locations[i][j] = 900)
                                  => v = 900000
                            /\ (args.scale = 10000 /\ args.locations[i][j] = -900)
                                  => v = -900000

\* -180 and -90 degrees packed next to 180 and 90 degrees at scale 10000
C22_Witness ==
    /\ pc = "returned"
    /\ args.scale = 10000
    /\ Len(args.locations) = 2
    /\ args.locations[1][1] = -1800 /\ args.locations[1][2] = -900
    /\ args.locations[2][1] = 1800 /\ args.locations[2][2] = 900
    /\ DecodedCoordinate(1, 1) = -1800000
    /\ DecodedCoordinate(1, 2) = -900000
    /\ CoordinateBytes(1) = <<192, 136, 228, 96, 68, 242>>
    /\ CoordinateBytes(2) = <<64, 119, 27, 160, 187, 13>>

(***************************************************************************)
(* The header check.                                                       *)
(***************************************************************************)
\* whether the text word occurs in the text message
Occurs(word, message) ==
    \E i \in 1..(Len(message) - Len(word) + 1) :
        SubSeq(message, i, i + Len(word) - 1) = word

\* the six required columns of a row and nothing else
SixColumns(row) ==
    Row(row.streetname, row.kind, row.center_lon, row.center_lat,
        row.city_place_node, row.city_place_city)

\* the loop of build_trie_shards over the rows read, from the shards shards_
RECURSIVE RerunShardRows(_, _, _)
RerunShardRows(shards_, shard_len_, read) ==
    IF read = <<>> THEN [t |-> "ok", shards |-> shards_]
    ELSE LET s == BuildShardRow(shards_, shard_len_, Head(read))
         IN IF s.t = "error" THEN s
            ELSE RerunShardRows(s.shards, shard_len_, Tail(read))

(***************************************************************************)
(* C23: missing columns are fatal.  When the header lacks one of the six   *)
(* required columns, build_trie and build_trie_shards raise before a row   *)
(* is read (no row, no location, no name, no shard), and the message       *)
(* names the missing columns and no other; a header with the six columns   *)
(* passes, and a further column changes neither the outcome of the check   *)
(* nor what the rows build.                                                *)
(***************************************************************************)
C23_MissingColumnsFatal ==
    pc # "open" =>
        LET missing == required \ args.fieldnames
        IN  IF missing # {}
            THEN /\ pc = "failed"
                 /\ result.t = "error"
                 /\ rows = <<>>
                 /\ shards = EmptyMap
                 /\ shard_len = 0 => build = NewBuilder
                 /\ \A column \in required :
                       Occurs(column, result.message) <=> column \in missing
                 /\ ~ Occurs(ExtraColumn, result.message)
            ELSE /\ result.t = "ok"
                 /\ pc = "rows"
                 /\ LET six == [i \in 1..Len(rows) |-> SixColumns(rows[i])]
                    IN  IF shard_len = 0
                        THEN build = RerunRows(NewBuilder, six)
                        ELSE shards = RerunShardRows(EmptyMap, shard_len, six).shards

\* build_trie_shards refuses a header that has the extra column but neither
\* kind nor center_lat, and names these two in their order
C23_Witness ==
    /\ pc = "failed"
    /\ shard_len > 0
    /\ ExtraColumn \in args.fieldnames
    /\ rows = <<>>
    /\ result.t = "error"
    /\ result.message = MissingPrefix
          \o <<99, 101, 110, 116, 101, 114, 95, 108, 97, 116>>
          \o <<44, 32>> \o <<107, 105, 110, 100>>

\* build_trie reads a row with the extra column as it reads the row without
C23_ExtraColumnIgnored ==
    /\ pc = "rows"
    /\ shard_len = 0
    /\ ExtraColumn \in args.fieldnames
    /\ Len(rows) = 2
    /\ "osm_id" \in DOMAIN rows[1]
    /\ Len(build.locations) = 2

(***************************************************************************)
(* The countries file.                                                     *)
(***************************************************************************)
\* the kind bytes of all locations of all shards
ShardKindBytes ==
    UNION { { shards[k].locations[i][5] : i \in 1..Len(shards[k].locations) } :
              k \in DOMAIN shards }

(***************************************************************************)
(* C24: countries file handling.  With a countries path whose file does    *)
(* not exist the build fails once the rows are read: the step that ends    *)
(* the row loop raises, whatever the rows built, so that build_trie_shards *)
(* never returns and nothing is ever written.  With None for the path that *)
(* step returns the shards the rows built, no entry added, and no location *)
(* of kind 10 exists.                                                      *)
(***************************************************************************)
C24_CountriesFileHandling ==
    /\ [][(pc = "rows" /\ rows' = rows) =>
            /\ countries_path = "missing" =>
                  (pc' = "failed" /\ shards' = shards /\ out' = NoOutput)
            /\ countries_path = "none" =>
                  (pc' = "built" /\ shards' = PopIndexes(shards))]_vars
    /\ [](countries_path = "missing" =>
            pc \in {"rows", "failed"} /\ out = NoOutput)
    /\ [](countries_path = "none" => COUNTRY_KIND_BYTE \notin ShardKindBytes)

\* the build has failed on the missing file after it read three rows into
\* two shards
C24_Witness ==
    /\ pc = "failed"
    /\ countries_path = "missing"
    /\ Len(rows) = 3
    /\ Cardinality(DOMAIN shards) = 2
    /\ \A k \in DOMAIN shards : "location_index" \in DOMAIN shards[k]
    /\ out = NoOutput

(***************************************************************************)
(* The effect of one country on the shards.                                *)
(***************************************************************************)
\* the indices a shard's trie holds under key, none for a shard not there
IndicesUnder(shards_, k, key) ==
    IF k \in DOMAIN shards_ THEN lookup_trie(shards_[k].trie, key) ELSE <<>>

\* what C25 says of the shards before and after the country
CountryEffect(before, country, after) ==
    LET code == country[1]
        name == country[2]
        k == shard_key_for_name(name, shard_len)
    IN  IF k = NoShardKey THEN after = before
        ELSE
        /\ DOMAIN after = DOMAIN before \cup {k}
        /\ \A j \in DOMAIN before : j # k => after[j] = before[j]
        /\ LET shard == after[k]
               entries == { i \in 1..Len(shard.locations) :
                              /\ shard.locations[i][1] = country[3]
                              /\ shard.locations[i][2] = country[4]
                              /\ shard.node_names[shard.locations[i][3] + 1] = code
                              /\ code = <<>> => shard.locations[i][3] = 0
                              /\ shard.city_names[shard.locations[i][4] + 1] = name
                              /\ shard.locations[i][5] = 10 }
           IN  /\ \E i \in 1..Len(shard.city_names) : shard.city_names[i] = name
               /\ code # <<>> =>
                     \E i \in 1..Len(shard.node_names) : shard.node_names[i] = code
               /\ Cardinality(entries) = 1
               /\ \A i \in entries :
                     /\ IndicesUnder(after, k, name)
                          = Append(IndicesUnder(before, k, name), i - 1)
                     /\ code # <<>> =>
                          IndicesUnder(after, k, code)
                            = Append(IndicesUnder(before, k, code), i - 1)

\* CountryEffect of every country of the list in turn, from the shards
\* before the first
RECURSIVE CountryEffects(_, _)
CountryEffects(before, countries) ==
    \/ countries = <<>>
    \/ LET after == AddShardCountry(before, shard_len, Head(countries))
       IN  /\ after.t = "ok"
           /\ CountryEffect(before, Head(countries), after.shards)
           /\ CountryEffects(after.shards, Tail(countries))

(***************************************************************************)
(* C25: country augmenter.  Each country whose name has a shard key        *)
(* touches the one shard of that key, made if absent, and no other; after  *)
(* it the shard's city table has the name, its node table the code when    *)
(* there is one, exactly one location is (lon, lat, index of the code or   *)
(* 0, index of the name, 10), and the index of that location is the last   *)
(* under the trie key name and, when there is a code, under the trie key   *)
(* code of the same shard.  A country whose name has no key changes        *)
(* nothing.  The shards returned are those after the last country.         *)
(***************************************************************************)
C25_CountryAugmenter ==
    [][(pc = "rows" /\ pc' = "built" /\ countries_path = "file") =>
          LET countries == LoadCountryRows(CountriesFile)
          IN  /\ CountryEffects(shards, countries)
              /\ shards' = PopIndexes(
                     AddShardCountries(shards, shard_len, countries).shards)]_vars

\* with prefix length 3 Switzerland and CH are in the shard "swi", which
\* the rows had not made, next to the shard of a row
C25_Witness ==
    /\ pc = "built"
    /\ countries_path = "file"
    /\ shard_len = 3
    /\ Len(rows) >= 1
    /\ Cardinality(DOMAIN shards) >= 3
    /\ <<115, 119, 105>> \in DOMAIN shards
    /\ Len(shards[<<115, 119, 105>>].locations) = 1
    /\ shards[<<115, 119, 105>>].locations[1][5] = 10
    /\ lookup_trie(shards[<<115, 119, 105>>].trie, <<67, 72>>) = <<0>>
    /\ lookup_trie(shards[<<115, 119, 105>>].trie, Switzerland) = <<0>>

(***************************************************************************)
(* A shard against build_trie on the rows and countries of its key.        *)
(***************************************************************************)
\* the rows read whose shard key is k, in the order read
RowsOf(k) == SelectSeq(rows, LAMBDA row : ShardKeyOf(row) = k)

\* the countries of the file whose shard key is k, in the order of the file
CountriesOf(k) ==
    IF countries_path = "file"
    THEN SelectSeq(LoadCountryRows(CountriesFile),
                   LAMBDA country : shard_key_for_name(country[2], shard_len) = k)
    ELSE <<>>

\* the rows of read by shard key, each group in the order read
RECURSIVE RowsByKey(_, _)
RowsByKey(read, groups) ==
    IF read = <<>> THEN groups
    ELSE LET k == ShardKeyOf(Head(read))
             group == IF k \in DOMAIN groups THEN groups[k] ELSE <<>>
         IN RowsByKey(Tail(read), Put(groups, k, Append(group, Head(read))))

\* what build_trie returns: its locals without the index maps
Returned(b) ==
    [locations |-> b.locations, node_names |-> b.node_names,
     city_names |-> b.city_names, trie |-> b.trie]

(***************************************************************************)
(* C26: sharded ingestion refines single-shard ingestion.  Every shard     *)
(* build_trie_shards returns (locations, node names, city names, trie) is  *)
(* what build_trie returns for the rows and the countries of the shard's   *)
(* key, in their order; and reading a row changes no shard other than the  *)
(* one of the row's key.                                                   *)
(***************************************************************************)
C26_ShardRefinesSingle ==
    /\ [](pc = "built" =>
            LET groups == RowsByKey(rows, EmptyMap)
            IN  \A k \in DOMAIN shards :
                   LET read == IF k \in DOMAIN groups THEN groups[k] ELSE <<>>
                   IN  shards[k] = Returned(add_countries_to_trie(
                                              RerunRows(NewBuilder, read),
                                              CountriesOf(k))))
    /\ [][(pc = "rows" /\ rows' # rows) =>
            \A j \in DOMAIN shards :
               j # ShardKeyOf(rows'[Len(rows')]) =>
                  j \in DOMAIN shards' /\ shards'[j] = shards[j]]_vars

\* three shards returned, one of rows only, one of a row and a country,
\* one of a country only
C26_Witness ==
    /\ pc = "built"
    /\ countries_path = "file"
    /\ shard_len = 1
    /\ \E k \in DOMAIN shards : Len(RowsOf(k)) >= 2 /\ CountriesOf(k) = <<>>
    /\ \E k \in DOMAIN shards : RowsOf(k) # <<>> /\ CountriesOf(k) # <<>>
    /\ \E k \in DOMAIN shards : RowsOf(k) = <<>> /\ CountriesOf(k) # <<>>

(***************************************************************************)
(* The name tables of a shard.                                             *)
(***************************************************************************)
\* a name vector without duplicates whose index map gives every name its
\* position, counted from 0, and knows no other name
TableConsistent(names, index) ==
    /\ DOMAIN index = { names[i] : i \in 1..Len(names) }
    /\ \A i \in 1..Len(names) : index[names[i]] = i - 1

NoDuplicates(names) ==
    \A i, j \in 1..Len(names) : names[i] = names[j] => i = j

(***************************************************************************)
(* C27: name tables are append-only and consistent with their index map.   *)
(* In every shard the node and city name vectors hold no string twice and  *)
(* start with the empty string; while the index maps exist, the map gives  *)
(* every name its position; every step leaves each name vector and each    *)
(* location vector a prefix of what it becomes, so that no index changes;  *)
(* and every row read that was stored is, at any later time, still one of  *)
(* the locations of its shard with the row's node and city strings.        *)
(***************************************************************************)
C27_NameTablesAppendOnly ==
    /\ [](\A k \in DOMAIN shards :
            /\ NoDuplicates(shards[k].node_names)
            /\ NoDuplicates(shards[k].city_names)
            /\ shards[k].node_names[1] = <<>>
            /\ shards[k].city_names[1] = <<>>
            /\ "node_index" \in DOMAIN shards[k] =>
                  /\ TableConsistent(shards[k].node_names, shards[k].node_index)
                  /\ TableConsistent(shards[k].city_names, shards[k].city_index))
    /\ [][\A k \in DOMAIN shards :
            /\ k \in DOMAIN shards'
            /\ IsPrefix(shards[k].node_names, shards'[k].node_names)
            /\ IsPrefix(shards[k].city_names, shards'[k].city_names)
            /\ IsPrefix(shards[k].locations, shards'[k].locations)]_vars
    /\ [](pc \in {"rows", "built"} =>
            LET groups == RowsByKey(rows, EmptyMap)
            IN  \A k \in DOMAIN shards :
                   LET read == IF k \in DOMAIN groups THEN groups[k] ELSE <<>>
                       stored == { NamedEntry(shards[k], shards[k].locations[i]) :
                                     i \in 1..Len(shards[k].locations) }
                   IN  \A i \in 1..Len(read) :
                          RowAccepted(read[i]) => RowTuple(read[i]) \in stored)

\* a shard of three rows that share their node: the node table has it once
\* and the two cities follow the empty string in the order they came
C27_Witness ==
    /\ pc = "rows"
    /\ shard_len = 1
    /\ <<102>> \in DOMAIN shards
    /\ Len(shards[<<102>>].locations) = 2
    /\ Len(RowsOf(<<102>>)) = 3
    /\ shards[<<102>>].node_names = << <<>>, NodeA >>
    /\ shards[<<102>>].city_names = << <<>>, CityB, CityA >>
    /\ shards[<<102>>].city_index[CityA] = 2

(***************************************************************************)
(* VarintSpec: encode_varint on a value, then decode_varint of the stats   *)
(* script on a buffer that holds the bytes, at any offset up to one past   *)
(* the end of the buffer.                                                  *)
(***************************************************************************)
MaxSmallVarint == 130

\* the values: the small ones, and around the powers of 128 up to 2^31 - 1
VarintValues ==
    (0..MaxSmallVarint)
      \cup {255, 256, 300, 16383, 16384, 2097151, 2097152, 268435455,
            268435456, 2147483647}

\* what the buffer holds before and after the bytes
VarintBefore == { <<>>, <<255, 1>> }
VarintAfter == { <<>>, <<129>> }

VarintInit ==
    /\ pc = "args"
    /\ args \in [value : VarintValues, before : VarintBefore, after : VarintAfter]
    /\ result = NoResult
    /\ out = NoOutput
    /\ trie = Dict(EmptyMap)
    /\ inserted = <<>>
    /\ louds = NoLouds
    /\ countries_path = "none"
    /\ rows = <<>>
    /\ build = NoBuild
    /\ shards = EmptyMap
    /\ shard_len = 0

\* encode_varint(value)
VarintEncode ==
    /\ pc = "args"
    /\ result' = [t |-> "ok", bytes |-> encode_varint(args.value)]
    /\ pc' = "encoded"
    /\ UNCHANGED <<args, buildVars, shardVars, trieVars>>

\* decode_varint(data, offset)
VarintDecode ==
    /\ pc = "encoded"
    /\ LET data == args.before \o result.bytes \o args.after
       IN  \E offset \in 0..(Len(data) + 1) :
              out' = [data |-> data, offset |-> offset,
                      read |-> decode_varint(data, offset)]
    /\ pc' = "decoded"
    /\ UNCHANGED <<countries_path, rows, build, args, result, shardVars, trieVars>>

VarintNext == VarintEncode \/ VarintDecode

VarintSpec == VarintInit /\ [][VarintNext]_vars

(***************************************************************************)
(* The varint codec.                                                       *)
(***************************************************************************)
\* the number whose groups of seven bits are the low bits of the bytes,
\* least significant group first
RECURSIVE GroupsValue(_)
GroupsValue(bytes) ==
    IF bytes = <<>> THEN 0
    ELSE (Head(bytes) % 128) + 128 * GroupsValue(Tail(bytes))

(***************************************************************************)
(* C28: varint codec.  For a value v >= 0, encode_varint(v) is a non-empty *)
(* sequence of bytes, every byte but the last with its top bit set, the    *)
(* last without; the low seven bits of the bytes are the groups of v,      *)
(* least significant first, and no shorter sequence has the value (the     *)
(* last group is not zero unless it is the only one).  decode_varint at    *)
(* the offset of the bytes in a buffer returns v and the offset after the  *)
(* bytes; at an offset at or past the end of the buffer, and at an offset  *)
(* from which the buffer ends on a set top bit, it raises.                 *)
(***************************************************************************)
C28_VarintCodec ==
    pc \in {"encoded", "decoded"} =>
        LET bytes == result.bytes
            n == Len(bytes)
        IN  /\ n >= 1
            /\ \A i \in 1..n : bytes[i] \in 0..255
            /\ \A i \in 1..(n - 1) : bytes[i] >= 128
            /\ bytes[n] < 128
            /\ n > 1 => bytes[n] # 0
            /\ GroupsValue(bytes) = args.value
            /\ pc = "decoded" =>
                  /\ out.offset = Len(args.before) =>
                        /\ out.read.t = "ok"
                        /\ out.read.value = args.value
                        /\ out.read.offset = out.offset + n
                  /\ out.offset >= Len(out.data) => out.read = Raised
                  /\ (\A i \in (out.offset + 1)..Len(out.data) : out.data[i] >= 128)
                        => out.read = Raised

\* 300 is AC 02 (hexadecimal), read back from offset 2 of a buffer of five
\* bytes up to offset 4
C28_Witness ==
    /\ pc = "decoded"
    /\ args.value = 300
    /\ result.bytes = <<172, 2>>
    /\ out.data = <<255, 1, 172, 2, 129>>
    /\ out.offset = 2
    /\ out.read = [t |-> "ok", value |-> 300, offset |-> 4]

\* decoding at the end of the buffer raises
C28_PastEnd ==
    /\ pc = "decoded"
    /\ out.offset = Len(out.data)
    /\ out.read = Raised

(***************************************************************************)
(* The writer against the reader of the stats script.                      *)
(***************************************************************************)
\* the number of values in the subtree of node
RECURSIVE TotalValues(_)
RECURSIVE SumValues(_, _)
SumValues(node, edges) ==
    IF edges = <<>> THEN 0
    ELSE TotalValues(node.m[Head(edges)]) + SumValues(node, Tail(edges))

TotalValues(node) == Len(NodeValues(node)) + SumValues(node, SortedEdges(node))

(***************************************************************************)
(* C29: writer and diagnostic reader agree.  parse_packed_trie reads what  *)
(* pack_trie returned without error and ends at the last byte, no byte     *)
(* left and none read beyond; the node count it reports is the number of   *)
(* nodes of the packed trie, the edge count one less, and the value count  *)
(* the number of values in the trie.                                       *)
(***************************************************************************)
C29_WriterReaderAgree ==
    pc = "packed" =>
        LET p == parse_packed_trie(out.bytes)
            nodes == 1 + Cardinality(Descendants(build.trie, <<>>))
        IN  /\ p.t = "ok"
            /\ p.offset = Len(out.bytes)
            /\ p.node_count = nodes
            /\ Len(p.edge_labels) = nodes - 1
            /\ Len(p.value_counts) = nodes
            /\ Len(p.values) = TotalValues(build.trie)
            /\ SumTo(p.value_counts, nodes) = TotalValues(build.trie)

\* a file of three rows or more and the countries: five nodes or more and
\* an odd number of values, so that the last kind byte holds one nibble
C29_Witness ==
    /\ pc = "packed"
    /\ countries_path = "file"
    /\ Len(rows) >= 3
    /\ parse_packed_trie(out.bytes).offset = Len(out.bytes)
    /\ parse_packed_trie(out.bytes).node_count >= 5
    /\ Len(parse_packed_trie(out.bytes).values) >= 5
    /\ Len(parse_packed_trie(out.bytes).values) % 2 = 1

(***************************************************************************)
(* SentinelSpec: insert_trie with keys that hold U+0000, the character of  *)
(* TERMINAL_KEY, then compress_trie and build_louds as in TrieSpec.  An    *)
(* insert that raises happens before insert_trie has changed the trie.     *)
(***************************************************************************)
\* "a", "a\0", "\0", "b\0c", "b", "cat", "\0b" and "\0a"
SentinelKeys == { <<97>>, <<97, 0>>, <<0>>, <<98, 0, 99>>, <<98>>,
                  <<99, 97, 116>>, <<0, 98>>, <<0, 97>> }

SentinelInsert ==
    /\ pc = "insert"
    /\ Len(inserted) < MaxInserts
    /\ \E key \in SentinelKeys :
         LET index == Len(inserted)
             changed == insert_trie(trie, key, index)
         IN  /\ inserted' = Append(inserted, <<key, index>>)
             /\ IF IsRaised(changed)
                THEN pc' = "failed" /\ trie' = trie
                ELSE pc' = pc /\ trie' = changed
    /\ UNCHANGED <<louds, buildVars, shardVars, callVars>>

SentinelNext == SentinelInsert \/ TrieCompress \/ TrieLouds

SentinelSpec == TrieInit /\ [][SentinelNext]_vars

\* every sentinel slot holds a list of indices, every other slot a node
RECURSIVE WellFormed(_)
WellFormed(node) ==
    /\ node.t = "dict"
    /\ \A k \in DOMAIN node.m :
          IF k = TERMINAL_KEY THEN node.m[k].t = "list"
          ELSE WellFormed(node.m[k])

\* the keys inserted without a raise
StoredCalls ==
    IF pc = "failed" THEN SubSeq(inserted, 1, Len(inserted) - 1) ELSE inserted

HasSentinel(key) == \E i \in 1..Len(key) : key[i] = 0

(***************************************************************************)
(* C30: the terminal marker never collides with key content.  Whatever     *)
(* non-empty keys are inserted, keys with U+0000 among them, no insert     *)
(* raises, every sentinel slot of the trie holds a list of indices and     *)
(* every other slot a node, before and after compress_trie, and every key  *)
(* inserted leads to its indices.                                          *)
(***************************************************************************)
C30_SentinelNeverCollides ==
    /\ pc # "failed"
    /\ WellFormed(trie)
    /\ pc \in {"insert", "compressed"} =>
          \A i \in 1..Len(inserted) :
             lookup_trie(trie, inserted[i][1]) = IndicesOf(inserted, inserted[i][1])

\* what holds instead: with no U+0000 in any key so far nothing raises, the
\* trie is well formed and every key leads to its indices; an insert raises
\* only when a key with U+0000 is among the keys, never the first, and a
\* key with U+0000 that is stored leaves a node in a sentinel slot
C30_CollisionFreeWithoutSentinel ==
    /\ (\A i \in 1..Len(inserted) : ~ HasSentinel(inserted[i][1])) =>
          /\ pc # "failed"
          /\ WellFormed(trie)
          /\ pc \in {"insert", "compressed"} =>
                \A i \in 1..Len(inserted) :
                   lookup_trie(trie, inserted[i][1])
                     = IndicesOf(inserted, inserted[i][1])
    /\ pc = "failed" => (\E i \in 1..Len(inserted) : HasSentinel(inserted[i][1]))
    /\ pc = "failed" => Len(inserted) >= 2
    /\ (\E i \in 1..Len(StoredCalls) : HasSentinel(StoredCalls[i][1]))
          => ~ WellFormed(trie)

\* "a" is stored, then "a\0" raises: the slot that holds the indices of "a"
\* is taken for a node
C30_InsertRaises ==
    /\ pc = "failed"
    /\ inserted = << <<<<97>>, 0>>, <<<<97, 0>>, 1>> >>
    /\ trie = Dict(<<97>> :> Dict(TERMINAL_KEY :> List(<<0>>)))

\* "a\0" alone is stored with a node in the sentinel slot of "a", and
\* build_louds takes the keys of that node for the values of "a"
C30_NodeAsValues ==
    /\ pc = "louds_raw"
    /\ inserted = << <<<<97, 0>>, 0>> >>
    /\ trie = Dict(<<97>> :> Dict(TERMINAL_KEY :> Dict(TERMINAL_KEY :> List(<<0>>))))
    /\ louds.node_count = 2
    /\ louds.values_per_node = << <<>>, << <<0>> >> >>

=============================================================================
